---------------------------- MODULE Spec2Model ----------------------------
(***************************************************************************)
(* Model of the "all competitions" page of the romaniarunning site         *)
(* (src/js-files/index.js, lines 295-727): the Romanian collation key, the *)
(* date token parser, the comparator of sortCompetitions, the three        *)
(* per-table sort states and the click / load handlers.                    *)
(*                                                                         *)
(* A JavaScript string is a sequence of UTF-16 code units.  A code unit is *)
(* written by name: an ASCII character stands for itself ("a", "S", "-",   *)
(* " "), and the ten Romanian letters of the replacement table are         *)
(* "a_breve", "A_breve", "a_circ", "A_circ", "i_circ", "I_circ",           *)
(* "s_comma", "S_comma", "t_comma", "T_comma" (U+0103, U+0102, U+00E2,      *)
(* U+00C2, U+00EE, U+00CE, U+0219, U+0218, U+021B, U+021A).                *)
(***************************************************************************)
EXTENDS Integers, Sequences, FiniteSets

VARIABLES
    doc,                      \* the document fetch_json_file resolved with
    loadPc,                   \* loadAllCompetitions: "fetching", "done" or "failed"
    competitionsData,         \* let competitionsData
    moldovaCompetitionsData,  \* let moldovaCompetitionsData
    otherCompetitionsData,    \* let otherCompetitionsData
    sortState,                \* let sortState = {table1, table2, table3}
    tableBody,                \* rows of the three <tbody> elements
    sortIcons,                \* class of the <i> of each th[data-column]
    sortCall,                 \* one call of sortCompetitions, then one in the other direction
    dateCall,                 \* the two dateToSortableNumber calls of one comparison
    keyCall,                  \* the two romanianSortKey calls of one comparison
    dom,                      \* the ids of the elements the page's document has
    uncaught,                 \* what the last handler let reach the global error handler
    consoleErrors,            \* what the last handler wrote with console.error
    storedTheme,              \* localStorage 'theme' ("" for none)
    systemDark,               \* matchMedia('(prefers-color-scheme: dark)').matches
    appliedTheme,             \* the data-bs-theme attribute of the document
    activeThemeButton,        \* the theme button carrying the class 'active'
    currentYear,              \* let currentYear (statistics page)
    currentJsonData,          \* let currentJsonData
    textYear,                 \* textContent of #text_year (0: the static text)
    statsFetches,             \* years of the statistics_main fetches in flight
    countyDraws,              \* draw_highcharts_county calls awaiting the topology
    charts,                   \* what the five chart containers show
    drawCalls,                \* the draw_highcharts_* calls of the last handler
    themeChanged,             \* data-bs-theme at the last handler's themeChanged ("": none)
    currentCompetitionYear,   \* let currentCompetitionYear (home page)
    container,                \* innerHTML of #competitions-container
    yearFetches,              \* years of the loadCompetitionsForYear fetches in flight
    homePc,                   \* home page: "loading", "ready" or "broken"
    versionsPc,               \* loadLastUpdateDate: "idle", "fetching" or "done"
    badges,                   \* textContent of #last-update-date and #version-number
    pathname,                 \* window.location.pathname
    navPc,                    \* initializeNavbar: "idle", "fetching", "done" or "failed"
    navLinks,                 \* innerHTML of #dynamic-nav-links
    themeSwitcher             \* innerHTML of #dynamic-theme-switcher

pageVars == <<doc, loadPc, competitionsData, moldovaCompetitionsData,
              otherCompetitionsData, sortState, tableBody, sortIcons>>
domVars == <<dom, uncaught, consoleErrors>>
themeVars == <<storedTheme, systemDark, appliedTheme, activeThemeButton>>
statsVars == <<currentYear, currentJsonData, textYear, statsFetches, countyDraws,
               charts, drawCalls, themeChanged>>
homeVars == <<currentCompetitionYear, container, yearFetches, homePc, versionsPc, badges>>
navVars == <<pathname, navPc, navLinks, themeSwitcher>>
siteVars == <<domVars, themeVars, statsVars, homeVars, navVars>>
vars == <<pageVars, sortCall, dateCall, keyCall, siteVars>>

-----------------------------------------------------------------------------
(* JavaScript strings *)

UpperLetters == <<"A","B","C","D","E","F","G","H","I","J","K","L","M",
                  "N","O","P","Q","R","S","T","U","V","W","X","Y","Z">>
LowerLetters == <<"a","b","c","d","e","f","g","h","i","j","k","l","m",
                  "n","o","p","q","r","s","t","u","v","w","x","y","z">>
DecimalDigits == <<"0","1","2","3","4","5","6","7","8","9">>

Range(s) == {s[i] : i \in 1..Len(s)}
IndexOf(s, c) == CHOOSE i \in 1..Len(s) : s[i] = c

Diacritics == {"a_breve", "A_breve", "a_circ", "A_circ", "i_circ", "I_circ",
               "s_comma", "S_comma", "t_comma", "T_comma"}
Chars == Range(DecimalDigits) \cup Range(UpperLetters) \cup Range(LowerLetters)
             \cup {" ", "+", "-", "~"} \cup Diacritics

\* The UTF-16 code unit of each named character.
CodeUnits ==
    [c \in Chars |->
        IF c \in Range(DecimalDigits) THEN 47 + IndexOf(DecimalDigits, c)
        ELSE IF c \in Range(UpperLetters) THEN 64 + IndexOf(UpperLetters, c)
        ELSE IF c \in Range(LowerLetters) THEN 96 + IndexOf(LowerLetters, c)
        ELSE CASE c = " " -> 32
               [] c = "+" -> 43
               [] c = "-" -> 45
               [] c = "~" -> 126
               [] c = "A_circ" -> 194
               [] c = "I_circ" -> 206
               [] c = "a_circ" -> 226
               [] c = "i_circ" -> 238
               [] c = "A_breve" -> 258
               [] c = "a_breve" -> 259
               [] c = "S_comma" -> 536
               [] c = "s_comma" -> 537
               [] c = "T_comma" -> 538
               [] c = "t_comma" -> 539]

CodeUnit(c) == CodeUnits[c]

\* String.prototype.toLowerCase, code unit by code unit.
LowerChars ==
    [c \in Chars |->
        IF c \in Range(UpperLetters) THEN LowerLetters[IndexOf(UpperLetters, c)]
        ELSE CASE c = "A_circ" -> "a_circ"
               [] c = "I_circ" -> "i_circ"
               [] c = "A_breve" -> "a_breve"
               [] c = "S_comma" -> "s_comma"
               [] c = "T_comma" -> "t_comma"
               [] OTHER -> c]

LowerChar(c) == LowerChars[c]

toLowerCase(s) == [i \in 1..Len(s) |-> LowerChar(s[i])]

\* The < of two strings: code unit by code unit, a proper prefix first.
StrLess(a, b) ==
    \E k \in 1..(Len(b)) :
        /\ k <= Len(a) + 1
        /\ \A i \in 1..(k - 1) : a[i] = b[i]
        /\ \/ k = Len(a) + 1
           \/ CodeUnit(a[k]) < CodeUnit(b[k])

\* s.replace(new RegExp(ch, 'g'), rep) for a one-character pattern.
RECURSIVE ReplaceAll(_, _, _)
ReplaceAll(s, ch, rep) ==
    IF s = <<>> THEN <<>>
    ELSE (IF Head(s) = ch THEN rep ELSE <<Head(s)>>) \o ReplaceAll(Tail(s), ch, rep)

\* s.split(sep) for a one-character separator.
RECURSIVE Split(_, _)
Split(s, sep) ==
    IF sep \notin Range(s) THEN <<s>>
    ELSE LET i == CHOOSE j \in 1..Len(s) :
                     s[j] = sep /\ \A k \in 1..(j - 1) : s[k] # sep
         IN  <<SubSeq(s, 1, i - 1)>> \o Split(SubSeq(s, i + 1, Len(s)), sep)

-----------------------------------------------------------------------------
(* JavaScript values: undefined, null, a string, or an integer number.    *)
(* NaN is the number with nan = TRUE.                                      *)

Undefined == [t |-> "undefined", s |-> <<>>, n |-> 0, nan |-> FALSE]
Null == [t |-> "null", s |-> <<>>, n |-> 0, nan |-> FALSE]
Str(s) == [t |-> "string", s |-> s, n |-> 0, nan |-> FALSE]
Num(n) == [t |-> "number", s |-> <<>>, n |-> n, nan |-> FALSE]
NaN == [t |-> "number", s |-> <<>>, n |-> 0, nan |-> TRUE]

\* ToBoolean(v) = false
Falsy(v) ==
    \/ v.t = "undefined"
    \/ v.t = "null"
    \/ v.t = "string" /\ v.s = <<>>
    \/ v.t = "number" /\ (v.nan \/ v.n = 0)

\* v || w
Or(v, w) == IF Falsy(v) THEN w ELSE v

\* obj[key], undefined when the object has no such property
Get(obj, key) == IF key \in DOMAIN obj THEN obj[key] ELSE Undefined

RECURSIVE NatToString(_)
NatToString(n) ==
    IF n < 10 THEN <<DecimalDigits[n + 1]>>
    ELSE NatToString(n \div 10) \o <<DecimalDigits[(n % 10) + 1]>>

\* ToString(v): what `element.textContent = v` and String(v) make of v.
ToString(v) ==
    IF v.t = "string" THEN v.s
    ELSE IF v.t = "undefined" THEN <<"u","n","d","e","f","i","n","e","d">>
    ELSE IF v.t = "null" THEN <<"n","u","l","l">>
    ELSE IF v.nan THEN <<"N", "a", "N">>
    ELSE IF v.n < 0 THEN <<"-">> \o NatToString(-v.n)
    ELSE NatToString(v.n)

HexDigits == <<"0","1","2","3","4","5","6","7","8","9","a","b","c","d","e","f">>

\* The value of each character as a digit, 16 for a character that is none.
DigitValues ==
    [c \in Chars |->
        IF LowerChars[c] \in Range(HexDigits)
        THEN IndexOf(HexDigits, LowerChars[c]) - 1 ELSE 16]

DigitValue(c, radix) == IF DigitValues[c] < radix THEN DigitValues[c] ELSE -1

RECURSIVE DigitPrefix(_, _)
DigitPrefix(s, radix) ==
    IF s = <<>> \/ DigitValue(Head(s), radix) < 0 THEN <<>>
    ELSE <<DigitValue(Head(s), radix)>> \o DigitPrefix(Tail(s), radix)

RECURSIVE DigitsValue(_, _)
DigitsValue(ds, radix) ==
    IF ds = <<>> THEN 0
    ELSE DigitsValue(SubSeq(ds, 1, Len(ds) - 1), radix) * radix + ds[Len(ds)]

RECURSIVE TrimStart(_)
TrimStart(s) == IF s # <<>> /\ Head(s) = " " THEN TrimStart(Tail(s)) ELSE s

\* parseInt(v) without a radix: leading white space, a sign, 0x / 0X for
\* radix 16, then the longest prefix of digits; NaN when that prefix is empty.
parseIntDigits(negative, ds, radix) ==
    IF ds = <<>> THEN NaN
    ELSE Num((IF negative THEN -1 ELSE 1) * DigitsValue(ds, radix))

parseIntUnsigned(negative, s) ==
    IF Len(s) >= 2 /\ s[1] = "0" /\ s[2] \in {"x", "X"}
    THEN parseIntDigits(negative, DigitPrefix(SubSeq(s, 3, Len(s)), 16), 16)
    ELSE parseIntDigits(negative, DigitPrefix(s, 10), 10)

parseIntTrimmed(s) ==
    IF s # <<>> /\ Head(s) \in {"+", "-"}
    THEN parseIntUnsigned(Head(s) = "-", Tail(s))
    ELSE parseIntUnsigned(FALSE, s)

parseInt(v) == parseIntTrimmed(TrimStart(ToString(v)))

-----------------------------------------------------------------------------
(* romanianSortKey, index.js 312-328 *)

\* const replacements with the entries of s-comma keyed by the plain letters
replacements_plainS ==
    << <<"a_breve", <<"a", "~", "1">> >>, <<"A_breve", <<"A", "~", "1">> >>,
       <<"a_circ",  <<"a", "~", "2">> >>, <<"A_circ",  <<"A", "~", "2">> >>,
       <<"i_circ",  <<"i", "~", "1">> >>, <<"I_circ",  <<"I", "~", "1">> >>,
       <<"s", <<"s", "~", "1">> >>, <<"S", <<"S", "~", "1">> >>,
       <<"t_comma", <<"t", "~", "1">> >>, <<"T_comma", <<"T", "~", "1">> >> >>

\* const replacements, as Object.entries lists it
replacements ==
    << <<"a_breve", <<"a", "~", "1">> >>, <<"A_breve", <<"A", "~", "1">> >>,
       <<"a_circ",  <<"a", "~", "2">> >>, <<"A_circ",  <<"A", "~", "2">> >>,
       <<"i_circ",  <<"i", "~", "1">> >>, <<"I_circ",  <<"I", "~", "1">> >>,
       <<"s_comma", <<"s", "~", "1">> >>, <<"S_comma", <<"S", "~", "1">> >>,
       <<"t_comma", <<"t", "~", "1">> >>, <<"T_comma", <<"T", "~", "1">> >> >>

\* One turn of the for loop (line 325).
ReplaceEntry(result, entry) ==
    ReplaceAll(result, LowerChar(entry[1]), toLowerCase(entry[2]))

RECURSIVE ReplaceEntries(_, _)
ReplaceEntries(result, entries) ==
    IF entries = <<>> THEN result
    ELSE ReplaceEntries(ReplaceEntry(result, Head(entries)), Tail(entries))

\* romanianSortKey without line 323's toLowerCase
romanianSortKey_noLowerCase(text) ==
    IF Falsy(text) THEN <<>>
    ELSE ReplaceEntries(text.s, replacements)

romanianSortKey(text) ==
    IF Falsy(text) THEN <<>>
    ELSE ReplaceEntries(toLowerCase(text.s), replacements)

-----------------------------------------------------------------------------
(* dateToSortableNumber, index.js 335-355 *)

\* const months
months ==
    [name \in {<<"J","a","n">>, <<"F","e","b">>, <<"M","a","r">>, <<"A","p","r">>,
               <<"M","a","y">>, <<"J","u","n">>, <<"J","u","l">>, <<"A","u","g">>,
               <<"S","e","p">>, <<"O","c","t">>, <<"N","o","v">>, <<"D","e","c">>} |->
        CASE name = <<"J","a","n">> -> Num(1)
          [] name = <<"F","e","b">> -> Num(2)
          [] name = <<"M","a","r">> -> Num(3)
          [] name = <<"A","p","r">> -> Num(4)
          [] name = <<"M","a","y">> -> Num(5)
          [] name = <<"J","u","n">> -> Num(6)
          [] name = <<"J","u","l">> -> Num(7)
          [] name = <<"A","u","g">> -> Num(8)
          [] name = <<"S","e","p">> -> Num(9)
          [] name = <<"O","c","t">> -> Num(10)
          [] name = <<"N","o","v">> -> Num(11)
          [] name = <<"D","e","c">> -> Num(12)]

\* dateFromDayMonth returning day * 100 + month
dateFromDayMonth_dayFirst(dayMonth) ==
    IF Len(dayMonth) # 2 THEN 0
    ELSE Or(parseInt(Str(dayMonth[1])), Num(0)).n * 100
             + Or(Get(months, dayMonth[2]), Num(0)).n

\* lines 348-354: from the two parts around '-' to the number
dateFromDayMonth(dayMonth) ==
    IF Len(dayMonth) # 2 THEN 0
    ELSE Or(Get(months, dayMonth[2]), Num(0)).n * 100
             + Or(parseInt(Str(dayMonth[1])), Num(0)).n

\* lines 345-347: from the parts around ' ' on
dateFromParts(parts) ==
    IF Len(parts) # 2 THEN 0
    ELSE dateFromDayMonth(Split(parts[2], "-"))

\* dateStr is a string value; the result is a number (never NaN: both
\* operands of month * 100 + day went through || 0).
dateToSortableNumber(dateStr) ==
    IF Falsy(dateStr) THEN 0
    ELSE dateFromParts(Split(dateStr.s, " "))

-----------------------------------------------------------------------------
(* sortCompetitions, index.js 364-401 *)

\* column.startsWith('year_'), for the column names of the model
YearColumns == {"year_2026", "year_2025", "year_2024", "year_2023"}
startsWithYear(column) == column \in YearColumns

\* compareNumbers ignoring the direction
compareNumbers_ascendingOnly(numA, numB, ascending) == numA - numB

\* line 375
compareNumbers(numA, numB, ascending) ==
    IF ascending THEN numA - numB ELSE numB - numA

\* lines 372-376: the 'id' branch of the comparator
compareId(valA, valB, ascending) ==
    compareNumbers(Or(parseInt(valA), Num(0)).n, Or(parseInt(valB), Num(0)).n,
                   ascending)

\* compareDates without the three sentinel returns
compareDates_noSentinel(dateA, dateB, ascending) ==
    IF ascending THEN dateA - dateB ELSE dateB - dateA

\* lines 383-388
compareDates(dateA, dateB, ascending) ==
    IF dateA = 0 /\ dateB = 0 THEN 0
    ELSE IF dateA = 0 THEN 1
    ELSE IF dateB = 0 THEN -1
    ELSE IF ascending THEN dateA - dateB ELSE dateB - dateA

\* lines 379-389: the 'year_*' branch of the comparator
compareYear(valA, valB, ascending) ==
    compareDates(dateToSortableNumber(valA), dateToSortableNumber(valB), ascending)

\* lines 395-397
compareKeys(keyA, keyB, ascending) ==
    IF StrLess(keyA, keyB) THEN (IF ascending THEN -1 ELSE 1)
    ELSE IF StrLess(keyB, keyA) THEN (IF ascending THEN 1 ELSE -1)
    ELSE 0

\* compareText on the raw strings, without romanianSortKey
compareText_rawStrings(valA, valB, ascending) ==
    compareKeys(ToString(valA), ToString(valB), ascending)

\* lines 392-397: the text branch of the comparator
compareText(valA, valB, ascending) ==
    compareKeys(romanianSortKey(Str(ToString(valA))),
                romanianSortKey(Str(ToString(valB))), ascending)

\* compareValues without the numeric branch for 'id'
compareValues_idAsText(valA, valB, column, ascending) ==
    IF startsWithYear(column) THEN compareYear(valA, valB, ascending)
    ELSE compareText(valA, valB, ascending)

\* lines 368-398, from the two values on
compareValues(valA, valB, column, ascending) ==
    IF column = "id" THEN compareId(valA, valB, ascending)
    ELSE IF startsWithYear(column) THEN compareYear(valA, valB, ascending)
    ELSE compareText(valA, valB, ascending)

\* lines 367-398: the arrow function handed to sort
compareFn(a, b, column, ascending) ==
    compareValues(Or(Get(a, column), Str(<<>>)), Or(Get(b, column), Str(<<>>)),
                  column, ascending)

\* Array.prototype.sort is stable: an element moves left only past the
\* elements the comparator puts after it.
RECURSIVE InsertLast(_, _, _, _)
InsertLast(arr, x, column, ascending) ==
    IF arr = <<>> THEN <<x>>
    ELSE LET last == arr[Len(arr)]
             front == SubSeq(arr, 1, Len(arr) - 1)
         IN  IF compareFn(last, x, column, ascending) > 0
             THEN InsertLast(front, x, column, ascending) \o <<last>>
             ELSE arr \o <<x>>

RECURSIVE ArraySort(_, _, _)
ArraySort(arr, column, ascending) ==
    IF arr = <<>> THEN <<>>
    ELSE InsertLast(ArraySort(SubSeq(arr, 1, Len(arr) - 1), column, ascending),
                    arr[Len(arr)], column, ascending)

\* sortCompetitions sorting the caller's array itself (no copy)
sortCompetitions_inPlace(data, column, ascending) ==
    [sorted |-> ArraySort(data, column, ascending),
     data |-> ArraySort(data, column, ascending)]

\* The result, and the array the caller passed as it is after the call:
\* the sort works on the copy [...data] (line 365).
sortCompetitions(data, column, ascending) ==
    [sorted |-> ArraySort(data, column, ascending), data |-> data]

-----------------------------------------------------------------------------
(* Inputs *)

SeqsUpTo(S, n) == UNION {[1..k -> S] : k \in 0..n}

MaxSortLen == 3
MaxKeyLen == 2

MonthNames ==
    << <<"J","a","n">>, <<"F","e","b">>, <<"M","a","r">>, <<"A","p","r">>,
       <<"M","a","y">>, <<"J","u","n">>, <<"J","u","l">>, <<"A","u","g">>,
       <<"S","e","p">>, <<"O","c","t">>, <<"N","o","v">>, <<"D","e","c">> >>
DayNames == {<<"S","a","t">>, <<"S","u","n">>}

\* "<day-name> <day>-<month-name>", as the generated document writes a date
DateString(dayName, day, month) ==
    dayName \o <<" ">> \o NatToString(day) \o <<"-">> \o MonthNames[month]

WellFormedDates ==
    {DateString(<<"S","a","t">>, d, m) : d \in {1, 24, 31}, m \in 1..12}
        \cup {DateString(<<"S","u","n">>, 5, m) : m \in {1, 2, 12}}

OtherDates ==
    { <<>>,
      <<"S","a","t">>,
      <<"2","4","-","J","a","n">>,
      <<"S","a","t"," ","2","4","J","a","n">>,
      <<"S","a","t"," ","2","4","-","J","a","n","-","2","0","2","6">>,
      <<"S","a","t"," "," ","5","-","J","a","n">>,
      <<"X","x","x"," ","5","-","Z","z","z">>,
      <<"S","a","t"," ","5","-","j","a","n">>,
      <<"S","a","t"," ","x","-","J","a","n">>,
      <<"S","a","t"," ","-","J","a","n">>,
      <<"S","a","t"," ","0","-","Z","z","z">>,
      <<"S","a","t"," ","0","-","J","a","n">>,
      <<"S","a","t"," ","0","x","1","0","-","M","a","r">>,
      <<"S","a","t"," ","5","-">>,
      <<" ","5","-","J","a","n">> }

DateInputs == {Str(d) : d \in WellFormedDates \cup OtherDates}

KeyAlphabet == {"A", "b", "z", "A_breve", "s", "s_comma", "t"}
KeyInputs == {Str(w) : w \in SeqsUpTo(KeyAlphabet, MaxKeyLen)} \cup {Undefined}

\* Competition records of the served document; a field the record lacks reads
\* as undefined.
SortPool ==
    { [id |-> Str(<<"2">>), name |-> Str(<<"A","z">>),
       year_2026 |-> Str(<<"S","a","t"," ","2","4","-","J","a","n">>)],
      [id |-> Str(<<"1","0">>), name |-> Str(<<"A_breve","b">>),
       year_2026 |-> Str(<<"S","u","n"," ","5","-","F","e","b">>)],
      [id |-> Str(<<"1">>), name |-> Str(<<"B">>), year_2026 |-> Str(<<>>)],
      [id |-> Str(<<"1">>), name |-> Str(<<"a","z">>),
       year_2026 |-> Str(<<"X","x","x"," ","5","-","Z","z","z">>)],
      [id |-> Undefined, name |-> Undefined, year_2026 |-> Undefined],
      [id |-> Num(3), name |-> Str(<<"b">>),
       year_2026 |-> Str(<<"F","r","i"," ","2","4","-","J","a","n">>)] }

SortColumns == {"id", "name", "year_2026", "distance"}

-----------------------------------------------------------------------------
(* Calls of the three functions on their own *)

SortIdle ==
    [pc |-> "idle", data |-> <<>>, column |-> "name", ascending |-> TRUE,
     sorted |-> <<>>, prev |-> <<>>]
DateIdle == [pc |-> "idle", valA |-> Str(<<>>), valB |-> Str(<<>>), dateA |-> 0, dateB |-> 0]
KeyIdle == [pc |-> "idle", textA |-> Undefined, textB |-> Undefined,
            keyA |-> <<>>, keyB |-> <<>>]

\* const sorted = sortCompetitions(data, column, ascending)
sortReturned(r) ==
    sortCall' = [sortCall EXCEPT !.pc = "sorted", !.sorted = r.sorted, !.data = r.data]

CallSort ==
    /\ sortCall.pc = "ready"
    /\ sortReturned(sortCompetitions(sortCall.data, sortCall.column, sortCall.ascending))
    /\ UNCHANGED <<pageVars, dateCall, keyCall, siteVars>>

\* The same array and column sorted again in the other direction, as a
\* second click on the column does (lines 574-582).
sortReturnedAgain(r) ==
    sortCall' = [sortCall EXCEPT !.pc = "resorted", !.prev = sortCall.sorted,
                                 !.ascending = ~sortCall.ascending,
                                 !.sorted = r.sorted, !.data = r.data]

CallSortOpposite ==
    /\ sortCall.pc = "sorted"
    /\ sortReturnedAgain(sortCompetitions(sortCall.data, sortCall.column,
                                          ~sortCall.ascending))
    /\ UNCHANGED <<pageVars, dateCall, keyCall, siteVars>>

\* const dateA = dateToSortableNumber(valA); const dateB = dateToSortableNumber(valB)
CallDates ==
    /\ dateCall.pc = "ready"
    /\ dateCall' = [dateCall EXCEPT !.pc = "done",
                                    !.dateA = dateToSortableNumber(dateCall.valA),
                                    !.dateB = dateToSortableNumber(dateCall.valB)]
    /\ UNCHANGED <<pageVars, sortCall, keyCall, siteVars>>

\* const keyA = romanianSortKey(...); const keyB = romanianSortKey(...)
CallKeys ==
    /\ keyCall.pc = "ready"
    /\ keyCall' = [keyCall EXCEPT !.pc = "done",
                                  !.keyA = romanianSortKey(keyCall.textA),
                                  !.keyB = romanianSortKey(keyCall.textB)]
    /\ UNCHANGED <<pageVars, sortCall, dateCall, siteVars>>

-----------------------------------------------------------------------------
(* The all-competitions page, index.js 298-305 and 403-727 *)

MaxRows == 2

PagePool ==
    { [id |-> Str(<<"1","0">>), name |-> Str(<<"A_breve">>), location |-> Null,
       year_2026 |-> Str(<<"S","a","t"," ","2","4","-","J","a","n">>)],
      [id |-> Str(<<"2">>), name |-> Str(<<"B">>), county |-> Str(<<>>),
       year_2026 |-> Undefined] }

MoldovaRows ==
    << [name |-> Str(<<"s_comma","a">>), year_2026 |-> Undefined],
       [name |-> Str(<<"S","z">>),
        year_2026 |-> Str(<<"S","a","t"," ","1","-","M","a","y">>)] >>

OtherRows ==
    << [name |-> Str(<<"T">>),
        year_2026 |-> Str(<<"S","a","t"," ","3","1","-","D","e","c">>)],
       [name |-> Str(<<"b">>),
        year_2026 |-> Str(<<"S","a","t"," ","1","-","D","e","c">>)] >>

\* The served document: `present` holds the keys the object has.
Docs ==
    { [present |-> {"competitions"} \cup m \cup o, competitions |-> c,
       competitions_moldova |-> MoldovaRows, competitions_other |-> OtherRows] :
        c \in SeqsUpTo(PagePool, MaxRows),
        m \in {{}, {"competitions_moldova"}},
        o \in {{"competitions_other"}} }

NoDoc ==
    [present |-> {}, competitions |-> <<>>,
     competitions_moldova |-> <<>>, competitions_other |-> <<>>]

\* data.key || []
ArrayOrEmpty(data, key) == IF key \in data.present THEN data[key] ELSE <<>>

\* The th[data-column] headers of the three tables that the model clicks.
Headers1 == {"id", "name", "year_2026"}
Headers2 == {"name", "year_2026"}
Headers3 == {"name", "year_2026"}

\* cell.textContent = value, without the `|| ''`
CellText_withoutDefault(value) == ToString(value)

\* cell.textContent = value || ''
CellText(value) == ToString(Or(value, Str(<<>>)))

DataRow(competition, columns) ==
    [kind |-> "data", colspan |-> 1,
     cells |-> [i \in 1..Len(columns) |-> CellText(Get(competition, columns[i]))]]

MessageRow(kind, colspan) == [kind |-> kind, colspan |-> colspan, cells |-> <<>>]

YearKeys == <<"year_2026", "year_2025", "year_2024", "year_2023">>

\* populateTable1 without `tableBody.innerHTML = ''`: the rows are appended
\* to those the body already has
populateTable1_keepsOldRows(competitions) ==
    IF competitions = <<>> THEN <<MessageRow("empty", 8)>>
    ELSE tableBody.table1 \o
         [i \in 1..Len(competitions) |->
             DataRow(competitions[i], <<"id", "name", "location", "county">> \o YearKeys)]

\* The rows of the table body after populateTableN(competitions).
populateTable1(competitions) ==
    IF competitions = <<>> THEN <<MessageRow("empty", 8)>>
    ELSE [i \in 1..Len(competitions) |->
             DataRow(competitions[i], <<"id", "name", "location", "county">> \o YearKeys)]

populateTable2(competitions) ==
    IF competitions = <<>> THEN <<MessageRow("empty", 6)>>
    ELSE [i \in 1..Len(competitions) |->
             DataRow(competitions[i], <<"name", "location">> \o YearKeys)]

populateTable3(competitions) ==
    IF competitions = <<>> THEN <<MessageRow("empty", 5)>>
    ELSE [i \in 1..Len(competitions) |->
             DataRow(competitions[i], <<"name">> \o YearKeys)]

\* The icon classes of a table's headers after updateSortIcons.
updateSortIcons(headers, column, ascending) ==
    [h \in headers |->
        IF h = column
        THEN (IF ascending THEN "bi bi-sort-alpha-down" ELSE "bi bi-sort-alpha-up")
        ELSE "bi bi-arrow-down-up"]

\* toggleSortState that never flips the direction
toggleSortState_alwaysAscending(state, column) ==
    [column |-> column, ascending |-> TRUE]

\* lines 574-579 (and 593-598, 612-617): the table's sort state after a
\* click on `column`.
toggleSortState(state, column) ==
    IF state.column = column
    THEN [state EXCEPT !.ascending = ~state.ascending]
    ELSE [column |-> column, ascending |-> TRUE]

\* lines 582-584: the table shows the result r of sortCompetitions
showTable1(column, st, r) ==
    /\ sortState' = [sortState EXCEPT !.table1 = st]
    /\ competitionsData' = r.data
    /\ tableBody' = [tableBody EXCEPT !.table1 = populateTable1(r.sorted)]
    /\ sortIcons' = [sortIcons EXCEPT
                        !.table1 = updateSortIcons(Headers1, column, st.ascending)]
    /\ UNCHANGED <<doc, loadPc, moldovaCompetitionsData, otherCompetitionsData,
                   sortCall, dateCall, keyCall, siteVars>>

sortTable1(column) ==
    LET st == toggleSortState(sortState.table1, column)
    IN  showTable1(column, st, sortCompetitions(competitionsData, column, st.ascending))

\* showTable2 writing table 1's sort state
showTable2_sharedState(column, st, r) ==
    /\ sortState' = [sortState EXCEPT !.table1 = st]
    /\ moldovaCompetitionsData' = r.data
    /\ tableBody' = [tableBody EXCEPT !.table2 = populateTable2(r.sorted)]
    /\ sortIcons' = [sortIcons EXCEPT
                        !.table2 = updateSortIcons(Headers2, column, st.ascending)]
    /\ UNCHANGED <<doc, loadPc, competitionsData, otherCompetitionsData,
                   sortCall, dateCall, keyCall, siteVars>>

\* lines 601-603
showTable2(column, st, r) ==
    /\ sortState' = [sortState EXCEPT !.table2 = st]
    /\ moldovaCompetitionsData' = r.data
    /\ tableBody' = [tableBody EXCEPT !.table2 = populateTable2(r.sorted)]
    /\ sortIcons' = [sortIcons EXCEPT
                        !.table2 = updateSortIcons(Headers2, column, st.ascending)]
    /\ UNCHANGED <<doc, loadPc, competitionsData, otherCompetitionsData,
                   sortCall, dateCall, keyCall, siteVars>>

sortTable2(column) ==
    LET st == toggleSortState(sortState.table2, column)
    IN  showTable2(column, st,
                   sortCompetitions(moldovaCompetitionsData, column, st.ascending))

\* lines 620-622
showTable3(column, st, r) ==
    /\ sortState' = [sortState EXCEPT !.table3 = st]
    /\ otherCompetitionsData' = r.data
    /\ tableBody' = [tableBody EXCEPT !.table3 = populateTable3(r.sorted)]
    /\ sortIcons' = [sortIcons EXCEPT
                        !.table3 = updateSortIcons(Headers3, column, st.ascending)]
    /\ UNCHANGED <<doc, loadPc, competitionsData, moldovaCompetitionsData,
                   sortCall, dateCall, keyCall, siteVars>>

sortTable3(column) ==
    LET st == toggleSortState(sortState.table3, column)
    IN  showTable3(column, st,
                   sortCompetitions(otherCompetitionsData, column, st.ascending))

\* lines 634-651: the globals, bodies and icons after the initial sorts r
showLoaded(r) ==
    /\ competitionsData' = r.competitions.data
    /\ moldovaCompetitionsData' = r.competitions_moldova.data
    /\ otherCompetitionsData' = r.competitions_other.data
    /\ tableBody' = [table1 |-> populateTable1(r.competitions.sorted),
                     table2 |-> populateTable2(r.competitions_moldova.sorted),
                     table3 |-> populateTable3(r.competitions_other.sorted)]
    /\ sortIcons' = [table1 |-> updateSortIcons(Headers1, "name", TRUE),
                     table2 |-> updateSortIcons(Headers2, "name", TRUE),
                     table3 |-> updateSortIcons(Headers3, "name", TRUE)]

\* loadAllCompetitions that shows the three arrays in the document's order
LoadSucceeds_unsorted(d) ==
    /\ loadPc = "fetching"
    /\ doc' = d
    /\ showLoaded([key \in {"competitions", "competitions_moldova", "competitions_other"} |->
                      [sorted |-> ArrayOrEmpty(d, key), data |-> ArrayOrEmpty(d, key)]])
    /\ loadPc' = "done"
    /\ UNCHANGED <<sortState, sortCall, dateCall, keyCall, siteVars>>

\* loadAllCompetitions from the fetch resolved with document d to the end of
\* the try block.
LoadSucceeds(d) ==
    /\ loadPc = "fetching"
    /\ doc' = d
    /\ showLoaded([key \in {"competitions", "competitions_moldova", "competitions_other"} |->
                      sortCompetitions(ArrayOrEmpty(d, key), "name", TRUE)])
    /\ loadPc' = "done"
    /\ UNCHANGED <<sortState, sortCall, dateCall, keyCall, siteVars>>

\* loadAllCompetitions when fetch_json_file throws: the catch block.
LoadFails ==
    /\ loadPc = "fetching"
    /\ tableBody' = [table1 |-> <<MessageRow("error", 8)>>,
                     table2 |-> <<MessageRow("error", 6)>>,
                     table3 |-> <<MessageRow("error", 5)>>]
    /\ loadPc' = "failed"
    /\ UNCHANGED <<doc, competitionsData, moldovaCompetitionsData,
                   otherCompetitionsData, sortState, sortIcons,
                   sortCall, dateCall, keyCall, siteVars>>

\* The page when the DOMContentLoaded handler has run: the fetch is in flight
\* (no document yet), the globals hold their initial values (lines 298-305).
PageInit ==
    /\ doc = NoDoc
    /\ loadPc = "fetching"
    /\ competitionsData = <<>>
    /\ moldovaCompetitionsData = <<>>
    /\ otherCompetitionsData = <<>>
    /\ sortState = [table1 |-> [column |-> "name", ascending |-> TRUE],
                    table2 |-> [column |-> "name", ascending |-> TRUE],
                    table3 |-> [column |-> "name", ascending |-> TRUE]]
    /\ tableBody = [table1 |-> <<>>, table2 |-> <<>>, table3 |-> <<>>]
    /\ sortIcons = [table1 |-> [h \in Headers1 |-> "bi bi-arrow-down-up"],
                    table2 |-> [h \in Headers2 |-> "bi bi-arrow-down-up"],
                    table3 |-> [h \in Headers3 |-> "bi bi-arrow-down-up"]]

-----------------------------------------------------------------------------
(* Errors, themes: part_001 lines 7-19 and 753-853 *)

\* getThemeColors() when the data-bs-theme attribute is `theme`.
getThemeColors(theme) ==
    [backgroundColor   |-> IF theme = "dark" THEN "#212529" ELSE "#ffffff",
     textColor         |-> IF theme = "dark" THEN "#dee2e6" ELSE "#333333",
     gridColor         |-> IF theme = "dark" THEN "#495057" ELSE "#e6e6e6",
     nullColor         |-> IF theme = "dark" THEN "#343a40" ELSE "#E0E0E0",
     tooltipBackground |-> IF theme = "dark" THEN "#343a40" ELSE "#ffffff",
     tooltipBorder     |-> IF theme = "dark" THEN "#6c757d" ELSE "#cccccc"]

SystemTheme(dark) == IF dark THEN "dark" ELSE "light"

\* getPreferredTheme(): the stored value when there is one.
getPreferredTheme(stored, dark) == IF stored # "" THEN stored ELSE SystemTheme(dark)

\* setTheme writing the value as it is, 'auto' included
setTheme_withoutAuto(theme, dark) == theme

\* The data-bs-theme attribute after setTheme(theme).
setTheme(theme, dark) == IF theme = "auto" THEN SystemTheme(dark) ELSE theme

ThemeValues == {"light", "dark", "auto"}

-----------------------------------------------------------------------------
(* The statistics page: part_001 lines 25-159, 432-508, 595-626 *)

ThisYear == 2026
Years == {2025, 2026}

MaxFetches == 1
MaxDraws == 2

\* The hc-key and the source key of each entry of competitions_by_county.
CountyCodes ==
    << <<"ro-ab", "AB">>, <<"ro-ar", "AR">>, <<"ro-ag", "AG">>, <<"ro-bi", "B">>,
       <<"ro-bc", "BC">>, <<"ro-bh", "BH">>, <<"ro-bn", "BN">>, <<"ro-bt", "BT">>,
       <<"ro-br", "BR">>, <<"ro-bv", "BV">>, <<"ro-bz", "BZ">>, <<"ro-cl", "CL">>,
       <<"ro-cs", "CS">>, <<"ro-cj", "CJ">>, <<"ro-ct", "CT">>, <<"ro-cv", "CV">>,
       <<"ro-db", "DB">>, <<"ro-dj", "DJ">>, <<"ro-gl", "GL">>, <<"ro-gr", "GR">>,
       <<"ro-gj", "GJ">>, <<"ro-hr", "HR">>, <<"ro-hd", "HD">>, <<"ro-il", "IL">>,
       <<"ro-is", "IS">>, <<"ro-if", "IF">>, <<"ro-mm", "MM">>, <<"ro-mh", "MH">>,
       <<"ro-ms", "MS">>, <<"ro-nt", "NT">>, <<"ro-ot", "OT">>, <<"ro-ph", "PH">>,
       <<"ro-sj", "SJ">>, <<"ro-sm", "SM">>, <<"ro-sb", "SB">>, <<"ro-sv", "SV">>,
       <<"ro-tr", "TR">>, <<"ro-tm", "TM">>, <<"ro-tl", "TL">>, <<"ro-vl", "VL">>,
       <<"ro-vs", "VS">>, <<"ro-vn", "VN">> >>

\* The statistics documents the server may answer with.  Each mapping is a
\* function from the years it has; a county object is a function from the
\* keys it has; a towns object is its entries in key order.
SnapshotA ==
    [t |-> "object",
     total_competitions    |-> [y \in {2025} |-> 120],
     competitions_by_month |-> [y \in {2025} |-> <<2, 3, 8, 14, 20, 18, 9, 10, 19, 12, 4, 1>>],
     competitions_by_type  |-> [y \in {2025} |-> [trail |-> 70, road |-> 40, other |-> 10]],
     competitions_by_county |-> [y \in {2025} |-> [k \in {"AB", "B"} |-> IF k = "AB" THEN 3 ELSE 10]],
     competitions_by_towns |-> [y \in {2025} |-> << <<"Cluj-Napoca", 5>>, <<"Brasov", 4>> >>]]

SnapshotB ==
    [t |-> "object",
     total_competitions    |-> [y \in {2025, 2026} |-> IF y = 2025 THEN 121 ELSE 0],
     competitions_by_month |-> [y \in {2025} |-> <<2, 3, 8, 14, 20, 18, 9, 10, 20, 12, 4, 1>>],
     competitions_by_type  |-> [y \in {2025} |-> [trail |-> 71, road |-> 40, other |-> 10]],
     competitions_by_county |-> [y \in {2025, 2026} |->
                                   IF y = 2025
                                   THEN [k \in {"VN", "B", "XX"} |-> IF k = "B" THEN 11 ELSE 1]
                                   ELSE [k \in {} |-> 0]],
     competitions_by_towns |-> [y \in {2025} |-> << <<"Brasov", 4>> >>]]

\* The document of the statistics page's session, and the documents the
\* adapter is applied to on its own.
SnapshotC ==
    [t |-> "object",
     total_competitions    |-> [y \in {2026} |-> 7],
     competitions_by_month |-> [y \in {2024} |-> <<7, 0, 0, 0, 0, 0, 0, 0, 0, 0, 0, 0>>],
     competitions_by_type  |-> [y \in {2024, 2025} |-> [trail |-> 0, road |-> 7, other |-> 0]],
     competitions_by_county |-> [y \in {2024} |-> [k \in {"TM"} |-> 7]],
     competitions_by_towns |-> [y \in {2026} |-> << <<"Timisoara", 7>> >>]]

Snapshots == {SnapshotA}
AdapterSnapshots == {SnapshotA, SnapshotB, SnapshotC}
AdapterYears == {2024, 2025, 2026}

\* lines 60-64
total_competitions(jsonData, year) ==
    IF year \in DOMAIN jsonData.total_competitions
       /\ jsonData.total_competitions[year] # 0
    THEN jsonData.total_competitions[year] ELSE 0

\* lines 67-71
competitions_by_month(jsonData, year) ==
    IF year \in DOMAIN jsonData.competitions_by_month
    THEN jsonData.competitions_by_month[year]
    ELSE <<0, 0, 0, 0, 0, 0, 0, 0, 0, 0, 0, 0>>

\* lines 74-82
competitions_by_type(jsonData, year) ==
    IF year \in DOMAIN jsonData.competitions_by_type
    THEN jsonData.competitions_by_type[year]
    ELSE [trail |-> 0, road |-> 0, other |-> 0]

\* county[key] of lines 87-128: undefined for a key the object has not
CountyValue(county, key) == IF key \in DOMAIN county THEN Num(county[key]) ELSE Undefined

\* competitions_by_county whose list lacks the entry of Bucharest
competitions_by_county_noBucharest(jsonData, year) ==
    LET codes == SelectSeq(CountyCodes, LAMBDA code : code[1] # "ro-bi")
    IN  IF year \in DOMAIN jsonData.competitions_by_county
        THEN [i \in 1..Len(codes) |->
                 <<codes[i][1],
                   CountyValue(jsonData.competitions_by_county[year], codes[i][2])>>]
        ELSE [i \in 1..Len(codes) |-> <<codes[i][1], Num(0)>>]

\* lines 85-144
competitions_by_county(jsonData, year) ==
    IF year \in DOMAIN jsonData.competitions_by_county
    THEN [i \in 1..Len(CountyCodes) |->
             <<CountyCodes[i][1],
               CountyValue(jsonData.competitions_by_county[year], CountyCodes[i][2])>>]
    ELSE [i \in 1..Len(CountyCodes) |-> <<CountyCodes[i][1], Num(0)>>]

\* lines 147-151
competitions_by_towns(jsonData, year) ==
    IF year \in DOMAIN jsonData.competitions_by_towns
    THEN jsonData.competitions_by_towns[year] ELSE <<>>

Chart(data, colors) == [data |-> data, colors |-> colors]

RemoveAt(seq, i) == [j \in 1..(Len(seq) - 1) |-> IF j < i THEN seq[j] ELSE seq[j + 1]]

FiveDrawCalls == <<"total", "months", "type", "county", "towns">>

\* update_charts_by_year(jsonData, year) run while the theme is `theme`.
\* Line 51 raises a TypeError when the page has no #text_year; the caller
\* decides where that error goes.
update_charts_by_year(jsonData, year, theme) ==
    /\ currentYear' = year
    /\ currentJsonData' = jsonData
    /\ IF "text_year" \in dom
       THEN /\ textYear' = year
            /\ charts' = [charts EXCEPT
                  !.total = <<Chart(total_competitions(jsonData, year), getThemeColors(theme))>>,
                  !.months = <<Chart(competitions_by_month(jsonData, year), getThemeColors(theme))>>,
                  !.type = <<Chart(competitions_by_type(jsonData, year), getThemeColors(theme))>>,
                  !.towns = <<Chart(competitions_by_towns(jsonData, year), getThemeColors(theme))>>]
            /\ countyDraws' = Append(countyDraws,
                                     Chart(competitions_by_county(jsonData, year),
                                           getThemeColors(theme)))
            /\ drawCalls' = FiveDrawCalls
       ELSE /\ UNCHANGED <<textYear, charts, countyDraws>>
            /\ drawCalls' = <<>>

\* change_data(year): statistics_main(year) issues the fetch, then the label
\* is written.
change_data(year) ==
    /\ Len(statsFetches) < MaxFetches
    /\ statsFetches' = Append(statsFetches, year)
    /\ IF "text_year" \in dom
       THEN textYear' = year /\ uncaught' = {}
       ELSE UNCHANGED textYear /\ uncaught' = {"change_data"}
    /\ drawCalls' = <<>>
    /\ consoleErrors' = {}
    /\ themeChanged' = ""
    /\ UNCHANGED <<currentYear, currentJsonData, countyDraws, charts, dom, navVars, themeVars,
                   homeVars, pageVars, sortCall, dateCall, keyCall>>

\* statistics_main from the fetch resolved with jsonData: lines 28-32.
StatsFetchSucceeds(i, jsonData) ==
    /\ i \in 1..Len(statsFetches)
    /\ Len(countyDraws) < MaxDraws
    /\ statsFetches' = RemoveAt(statsFetches, i)
    /\ update_charts_by_year(jsonData, statsFetches[i], appliedTheme)
    /\ consoleErrors' = IF "text_year" \in dom THEN {}
                        ELSE {"Error in fetching or using JSON"}
    /\ uncaught' = {}
    /\ themeChanged' = ""
    /\ UNCHANGED <<dom, navVars, themeVars, homeVars, pageVars, sortCall, dateCall, keyCall>>

\* statistics_main when fetch_json_file throws: lines 622-624, then 30-32.
StatsFetchFails(i) ==
    /\ i \in 1..Len(statsFetches)
    /\ statsFetches' = RemoveAt(statsFetches, i)
    /\ consoleErrors' = {"There was a problem with the fetch operation",
                         "Error in fetching or using JSON"}
    /\ drawCalls' = <<>>
    /\ uncaught' = {}
    /\ themeChanged' = ""
    /\ UNCHANGED <<currentYear, currentJsonData, textYear, countyDraws, charts, dom, navVars,
                   themeVars, homeVars, pageVars, sortCall, dateCall, keyCall>>

\* draw_highcharts_county from the topology's arrival: lines 440-506.
TopologyArrives(i) ==
    /\ i \in 1..Len(countyDraws)
    /\ charts' = [charts EXCEPT !.county = <<countyDraws[i]>>]
    /\ countyDraws' = RemoveAt(countyDraws, i)
    /\ drawCalls' = <<>>
    /\ uncaught' = {}
    /\ consoleErrors' = {}
    /\ themeChanged' = ""
    /\ UNCHANGED <<currentYear, currentJsonData, textYear, statsFetches, dom, navVars,
                   themeVars, homeVars, pageVars, sortCall, dateCall, keyCall>>

\* draw_highcharts_county when the fetch of the topology rejects: the async
\* function of lines 433-507 has no catch.
TopologyFails(i) ==
    /\ i \in 1..Len(countyDraws)
    /\ countyDraws' = RemoveAt(countyDraws, i)
    /\ uncaught' = {"draw_highcharts_county"}
    /\ drawCalls' = <<>>
    /\ consoleErrors' = {}
    /\ themeChanged' = ""
    /\ UNCHANGED <<currentYear, currentJsonData, textYear, statsFetches, charts, dom, navVars,
                   themeVars, homeVars, pageVars, sortCall, dateCall, keyCall>>

\* The listener redrawing with the colors of the theme applied before the
\* change
themeChangedListener_staleColors(theme) ==
    IF currentJsonData # Null /\ currentYear # 0
    THEN /\ Len(countyDraws) < MaxDraws
         /\ update_charts_by_year(currentJsonData, currentYear, appliedTheme)
         /\ uncaught' = IF "text_year" \in dom THEN {}
                        ELSE {"themeChanged"}
    ELSE /\ drawCalls' = <<>>
         /\ uncaught' = {}
         /\ UNCHANGED <<currentYear, currentJsonData, textYear, charts, countyDraws>>

\* The themeChanged listener of lines 601-605, run while the theme is `theme`.
themeChangedListener(theme) ==
    IF currentJsonData # Null /\ currentYear # 0
    THEN /\ Len(countyDraws) < MaxDraws
         /\ update_charts_by_year(currentJsonData, currentYear, theme)
         /\ uncaught' = IF "text_year" \in dom THEN {}
                        ELSE {"themeChanged"}
    ELSE /\ drawCalls' = <<>>
         /\ uncaught' = {}
         /\ UNCHANGED <<currentYear, currentJsonData, textYear, charts, countyDraws>>

\* The click listener of a theme button: lines 831-838.
ThemeClick(theme) ==
    /\ storedTheme' = theme
    /\ appliedTheme' = setTheme(theme, systemDark)
    /\ activeThemeButton' = theme
    /\ themeChanged' = setTheme(theme, systemDark)
    /\ themeChangedListener(setTheme(theme, systemDark))
    /\ consoleErrors' = {}
    /\ UNCHANGED <<systemDark, statsFetches, dom, navVars, homeVars, pageVars, sortCall,
                   dateCall, keyCall>>

\* The change listener without the test of the stored preference
SystemPreferenceChange_ignoresStored ==
    /\ systemDark' = ~systemDark
    /\ appliedTheme' = SystemTheme(~systemDark)
    /\ themeChanged' = SystemTheme(~systemDark)
    /\ themeChangedListener(SystemTheme(~systemDark))
    /\ consoleErrors' = {}
    /\ UNCHANGED <<storedTheme, activeThemeButton, statsFetches, dom, navVars, homeVars,
                   pageVars, sortCall, dateCall, keyCall>>

\* The change listener of the prefers-color-scheme query: lines 846-853.
SystemPreferenceChange ==
    /\ systemDark' = ~systemDark
    /\ IF storedTheme \notin {"light", "dark"}
       THEN /\ appliedTheme' = setTheme(getPreferredTheme(storedTheme, ~systemDark), ~systemDark)
            /\ themeChanged' = setTheme(getPreferredTheme(storedTheme, ~systemDark), ~systemDark)
            /\ themeChangedListener(setTheme(getPreferredTheme(storedTheme, ~systemDark),
                                             ~systemDark))
       ELSE /\ drawCalls' = <<>>
            /\ themeChanged' = ""
            /\ uncaught' = {}
            /\ UNCHANGED <<appliedTheme, currentYear, currentJsonData, textYear,
                           charts, countyDraws>>
    /\ consoleErrors' = {}
    /\ UNCHANGED <<storedTheme, activeThemeButton, statsFetches, dom, navVars, homeVars,
                   pageVars, sortCall, dateCall, keyCall>>

NoCharts == [total |-> <<>>, months |-> <<>>, type |-> <<>>, county |-> <<>>, towns |-> <<>>]

\* The theme once the script has run (line 843) and initializeThemeSwitcher
\* has marked the active button (line 826).
ThemeInit ==
    /\ storedTheme \in {""} \cup ThemeValues
    /\ systemDark \in BOOLEAN
    /\ appliedTheme = setTheme(getPreferredTheme(storedTheme, systemDark), systemDark)
    /\ activeThemeButton = getPreferredTheme(storedTheme, systemDark)

ThemeFixed ==
    /\ storedTheme = ""
    /\ systemDark = FALSE
    /\ appliedTheme = "light"
    /\ activeThemeButton = "light"

\* The statistics page with no fetch issued yet: lines 37-38.
StatsInit ==
    /\ currentYear = ThisYear
    /\ currentJsonData = Null
    /\ textYear = 0
    /\ statsFetches = <<>>
    /\ countyDraws = <<>>
    /\ charts = NoCharts
    /\ drawCalls = <<>>
    /\ themeChanged = ""

NoErrors ==
    /\ uncaught = {}
    /\ consoleErrors = {}

-----------------------------------------------------------------------------
(* The home page: index.js lines 7-223 *)

HomeYears == {2024, 2026}
MaxYearFetches == 2

\* The per-year documents the server may answer with.
EventA ==
    [display_date |-> "Sat 24-Jan", name |-> "Gerar", link |-> "https://gerar.ro",
     link_fb |-> "", location |-> "Bucuresti", location_details |-> "",
     county |-> "B", type |-> "road", distances |-> <<"10 km", "21 km">>, month |-> 1]
EventB ==
    [display_date |-> "Sun 8-Feb", name |-> "Iarna", link |-> "https://iarna.ro",
     link_fb |-> "https://fb.example/iarna", location |-> "Brasov",
     location_details |-> "Poiana", county |-> "BV", type |-> "trail",
     distances |-> <<"12 km">>, month |-> 2]

YearDocs == {<<>>, <<EventA, EventB>>}

\* lines 98-104: the content of the name cell
competitionNameCell(competition, showFullVersion) ==
    IF showFullVersion
    THEN <<[a |-> competition.link, text |-> competition.name]>>
         \o (IF competition.link_fb # "" THEN <<[a |-> competition.link_fb, text |-> "bi bi-facebook"]>>
             ELSE <<>>)
    ELSE <<[a |-> "", text |-> competition.name]>>

\* lines 87-129: the row of the competition at `index`
CompetitionRow(competitions, index, showFullVersion) ==
    [lastOfMonth |-> index < Len(competitions)
                     /\ competitions[index].month # competitions[index + 1].month,
     month       |-> competitions[index].month,
     date        |-> competitions[index].display_date,
     name        |-> competitionNameCell(competitions[index], showFullVersion),
     location    |-> <<competitions[index].location>>
                     \o (IF competitions[index].location_details # ""
                         THEN <<competitions[index].location_details>> ELSE <<>>),
     county      |-> competitions[index].county,
     type        |-> competitions[index].type,
     distances   |-> IF showFullVersion THEN competitions[index].distances ELSE <<>>]

\* lines 65-138
renderCompetitionsTable(competitions, year) ==
    [kind |-> "table", year |-> year,
     columns |-> IF year >= ThisYear - 1 THEN 6 ELSE 5,
     rows |-> [i \in 1..Len(competitions) |->
                  CompetitionRow(competitions, i, year >= ThisYear - 1)]]

\* The alert of lines 41-46 ("info") or 50-55 ("error").
Alert(kind, year) == [kind |-> kind, year |-> year, columns |-> 0, rows |-> <<>>]

StaticContainer == [kind |-> "static", year |-> 0, columns |-> 0, rows |-> <<>>]

\* container.innerHTML = content, for the container looked up at line 24
\* (null when the page has none: the assignment then raises a TypeError,
\* inside the try it is caught at line 48 and the assignment of line 50
\* raises again, so the promise of the async function rejects).
WriteContainer(content) ==
    IF "competitions-container" \in dom
    THEN container' = content /\ uncaught' = {}
    ELSE UNCHANGED container /\ uncaught' = {"loadCompetitionsForYear"}

\* change_year(year): lines 13-17; line 15 raises when the page has no
\* #text_year, before the fetch is issued.
change_year(year) ==
    /\ homePc # "loading"
    /\ Len(yearFetches) < MaxYearFetches
    /\ currentCompetitionYear' = year
    /\ IF "text_year" \in dom
       THEN /\ textYear' = year
            /\ yearFetches' = Append(yearFetches, year)
            /\ uncaught' = {}
       ELSE /\ uncaught' = {"change_year"}
            /\ UNCHANGED <<textYear, yearFetches>>
    /\ consoleErrors' = {}
    /\ UNCHANGED <<container, homePc, versionsPc, badges, dom, navVars, themeVars, currentYear,
                   currentJsonData, statsFetches, countyDraws, charts, drawCalls,
                   themeChanged,
                   pageVars, sortCall, dateCall, keyCall>>

\* loadCompetitionsForYear that renders a response only when its year is
\* still the selected one
YearFetchOk_dropsStale(i, competitions) ==
    /\ i \in 1..Len(yearFetches)
    /\ yearFetches' = RemoveAt(yearFetches, i)
    /\ IF yearFetches[i] = currentCompetitionYear
       THEN WriteContainer(renderCompetitionsTable(competitions, yearFetches[i]))
       ELSE UNCHANGED container /\ uncaught' = {}
    /\ consoleErrors' = {}
    /\ UNCHANGED <<currentCompetitionYear, textYear, homePc, versionsPc, badges, dom, navVars,
                   themeVars, currentYear, currentJsonData, statsFetches, countyDraws,
                   charts, drawCalls, themeChanged, pageVars, sortCall, dateCall, keyCall>>

\* loadCompetitionsForYear from a response that is ok and parses: lines 30-38.
YearFetchOk(i, competitions) ==
    /\ i \in 1..Len(yearFetches)
    /\ yearFetches' = RemoveAt(yearFetches, i)
    /\ WriteContainer(renderCompetitionsTable(competitions, yearFetches[i]))
    /\ consoleErrors' = IF "competitions-container" \in dom THEN {}
                        ELSE {"Error loading competitions"}
    /\ UNCHANGED <<currentCompetitionYear, textYear, homePc, versionsPc, badges, dom, navVars,
                   themeVars, currentYear, currentJsonData, statsFetches, countyDraws,
                   charts, drawCalls, themeChanged, pageVars, sortCall, dateCall, keyCall>>

\* loadCompetitionsForYear from a response that is not ok: lines 39-47.
YearFetchNotOk(i) ==
    /\ i \in 1..Len(yearFetches)
    /\ yearFetches' = RemoveAt(yearFetches, i)
    /\ WriteContainer(Alert("info", yearFetches[i]))
    /\ consoleErrors' = IF "competitions-container" \in dom THEN {}
                        ELSE {"Error loading competitions"}
    /\ UNCHANGED <<currentCompetitionYear, textYear, homePc, versionsPc, badges, dom, navVars,
                   themeVars, currentYear, currentJsonData, statsFetches, countyDraws,
                   charts, drawCalls, themeChanged, pageVars, sortCall, dateCall, keyCall>>

\* A thrown fetch handled as a response that is not ok
YearFetchThrows_asNotOk(i) == YearFetchNotOk(i)

\* loadCompetitionsForYear when fetch or response.json() throws: lines 48-56.
YearFetchThrows(i) ==
    /\ i \in 1..Len(yearFetches)
    /\ yearFetches' = RemoveAt(yearFetches, i)
    /\ WriteContainer(Alert("error", yearFetches[i]))
    /\ consoleErrors' = {"Error loading competitions"}
    /\ UNCHANGED <<currentCompetitionYear, textYear, homePc, versionsPc, badges, dom, navVars,
                   themeVars, currentYear, currentJsonData, statsFetches, countyDraws,
                   charts, drawCalls, themeChanged, pageVars, sortCall, dateCall, keyCall>>

\* The versions documents the server may answer with (real calendar dates).
Version(id, year, month, day) ==
    [version_id |-> Str(id), date |-> [year |-> year, month |-> month, day |-> day]]

VersionsDocs ==
    { <<>>,
      <<Version(<<"9">>, 2025, 12, 31), Version(<<"1", "0">>, 2026, 1, 5),
        Version(<<"2">>, 2025, 3, 14)>>,
      <<Version(<<"1", "0">>, 2026, 1, 5), Version(<<"9">>, 2025, 12, 31)>> }

\* currentId > maxId
Greater(a, b) == ~a.nan /\ ~b.nan /\ a.n > b.n

\* The reduce replaced by taking the last entry of the list
latestVersion_lastEntry(versions) == versions[Len(versions)]

\* lines 173-177: versions.reduce(...) on a non-empty array
RECURSIVE latestVersion(_)
latestVersion(versions) ==
    IF Len(versions) = 1 THEN versions[1]
    ELSE LET max == latestVersion(SubSeq(versions, 1, Len(versions) - 1))
         IN  IF Greater(parseInt(versions[Len(versions)].version_id), parseInt(max.version_id))
             THEN versions[Len(versions)] ELSE max

monthNames ==
    << <<"J","a","n">>, <<"F","e","b">>, <<"M","a","r">>, <<"A","p","r">>,
       <<"M","a","y">>, <<"J","u","n">>, <<"J","u","l">>, <<"A","u","g">>,
       <<"S","e","p">>, <<"O","c","t">>, <<"N","o","v">>, <<"D","e","c">> >>

\* String(n).padStart(2, '0')
padStart2(s) == IF Len(s) < 2 THEN <<"0">> \o s ELSE s

\* lines 180-193, for a date of the calendar
formattedDate(date) ==
    padStart2(NatToString(date.day)) \o <<"-">> \o monthNames[date.month]
        \o <<"-">> \o NatToString(date.year)

NotAvailable == <<"N", "/", "A">>

\* lines 196-204: each badge is written when the page has it
ShowVersion(version) ==
    /\ badges' = [date    |-> IF "last-update-date" \in dom
                              THEN formattedDate(version.date) ELSE badges.date,
                  version |-> IF "version-number" \in dom
                              THEN ToString(version.version_id) ELSE badges.version]
    /\ uncaught' = {}

\* lines 207-208 and 212-213: the two writes are not guarded; the first
\* missing badge raises a TypeError, which leaves the catch block.
ShowNotAvailable ==
    /\ badges' = [date    |-> IF "last-update-date" \in dom THEN NotAvailable
                              ELSE badges.date,
                  version |-> IF {"last-update-date", "version-number"} \subseteq dom
                              THEN NotAvailable ELSE badges.version]
    /\ uncaught' = IF {"last-update-date", "version-number"} \subseteq dom THEN {}
                   ELSE {"loadLastUpdateDate"}

\* loadLastUpdateDate from a response that is ok and parses: an empty
\* versions array makes reduce raise a TypeError, caught at line 210.
VersionsOk(versions) ==
    /\ versionsPc = "fetching"
    /\ versionsPc' = "done"
    /\ IF versions = <<>>
       THEN /\ ShowNotAvailable
            /\ consoleErrors' = {"Error loading last update date"}
       ELSE /\ ShowVersion(latestVersion(versions))
            /\ consoleErrors' = {}
    /\ UNCHANGED <<currentCompetitionYear, container, yearFetches, homePc, textYear,
                   dom, navVars, themeVars, currentYear, currentJsonData, statsFetches,
                   countyDraws, charts, drawCalls, themeChanged, pageVars, sortCall,
                   dateCall,
                   keyCall>>

\* loadLastUpdateDate from a response that is not ok (lines 205-209) or from
\* a fetch that throws (lines 210-214).
VersionsFail(message) ==
    /\ versionsPc = "fetching"
    /\ versionsPc' = "done"
    /\ ShowNotAvailable
    /\ consoleErrors' =
          IF {"last-update-date", "version-number"} \subseteq dom
          THEN {message}
          ELSE {message, "Error loading last update date"}
    /\ UNCHANGED <<currentCompetitionYear, container, yearFetches, homePc, textYear,
                   dom, navVars, themeVars, currentYear, currentJsonData, statsFetches,
                   countyDraws, charts, drawCalls, themeChanged, pageVars, sortCall,
                   dateCall,
                   keyCall>>

\* The DOMContentLoaded listener of lines 218-223; line 220 raises when the
\* page has no #text_year and the two loads are then never started.
HomeDOMContentLoaded ==
    /\ homePc = "loading"
    /\ IF "text_year" \in dom
       THEN /\ textYear' = ThisYear
            /\ yearFetches' = Append(yearFetches, ThisYear)
            /\ versionsPc' = "fetching"
            /\ homePc' = "ready"
            /\ uncaught' = {}
       ELSE /\ uncaught' = {"DOMContentLoaded"}
            /\ homePc' = "broken"
            /\ UNCHANGED <<textYear, yearFetches, versionsPc>>
    /\ consoleErrors' = {}
    /\ UNCHANGED <<currentCompetitionYear, container, badges, dom, navVars, themeVars,
                   currentYear, currentJsonData, statsFetches, countyDraws, charts,
                   drawCalls, themeChanged, pageVars, sortCall, dateCall, keyCall>>

\* The home page before its DOMContentLoaded listener runs: line 7.
HomeInit ==
    /\ currentCompetitionYear = ThisYear
    /\ container = StaticContainer
    /\ yearFetches = <<>>
    /\ homePc = "loading"
    /\ versionsPc = "idle"
    /\ badges = [date |-> <<>>, version |-> <<>>]

\* The elements the handlers of each page look up.
HomeElements == {"text_year", "competitions-container", "last-update-date", "version-number"}
StatisticsElements == {"text_year"}
AllCompetitionsElements ==
    {"table-1", "table-2", "table-3", "competitions-table-body",
     "competitions-moldova-table-body", "competitions-other-table-body"}

-----------------------------------------------------------------------------
(* The navigation bar: part_001 lines 636-743 *)

IndexHtml == <<"i","n","d","e","x",".","h","t","m","l">>
ParkHtml == <<"p","a","r","k",".","h","t","m","l">>
StatisticsHtml == <<"s","t","a","t","i","s","t","i","c","s",".","h","t","m","l">>

\* The paths the pages are served under.
Pathnames ==
    { <<"/">>, <<"/">> \o IndexHtml, <<"/">> \o ParkHtml,
      <<"/","r","r","/">>, <<"/","r","r","/">> \o ParkHtml,
      <<"/","r","r","/">> \o StatisticsHtml }

\* The pages documents the server may answer with.
PagesDocs ==
    { <<>>,
      << [page_name |-> "Home", page_link |-> IndexHtml],
         [page_name |-> "Park Run", page_link |-> ParkHtml],
         [page_name |-> "Statistics", page_link |-> StatisticsHtml] >>,
      << [page_name |-> "Statistics", page_link |-> StatisticsHtml],
         [page_name |-> "Home", page_link |-> IndexHtml] >> }

\* getCurrentPage() that returns the last segment as it is
getCurrentPage_withoutDefault(path) == Split(path, "/")[Len(Split(path, "/"))]

\* getCurrentPage(): path.split('/').pop() || 'index.html'
getCurrentPage(path) ==
    IF Split(path, "/")[Len(Split(path, "/"))] = <<>> THEN IndexHtml
    ELSE Split(path, "/")[Len(Split(path, "/"))]

\* createNavLink(page, isActive): the <a> of the list item
createNavLink(page, isActive) ==
    [class       |-> IF isActive THEN "nav-link active" ELSE "nav-link",
     ariaCurrent |-> IF isActive THEN "page" ELSE "",
     href        |-> page.page_link,
     text        |-> page.page_name]

\* pagesData.pages.map(page => createNavLink(page, page.page_link === currentPage))
navLinksOf(pages, currentPage) ==
    [i \in 1..Len(pages) |-> createNavLink(pages[i], pages[i].page_link = currentPage)]

StaticNav == <<[class |-> "static", ariaCurrent |-> "", href |-> <<>>, text |-> ""]>>

NavElements == {"dynamic-nav-links", "dynamic-theme-switcher"}

\* The DOMContentLoaded listener of lines 741-743: initializeNavbar up to its
\* await.
NavDOMContentLoaded ==
    /\ navPc = "idle"
    /\ navPc' = "fetching"
    /\ uncaught' = {}
    /\ consoleErrors' = {}
    /\ UNCHANGED <<pathname, navLinks, themeSwitcher, dom, themeVars, statsVars,
                   homeVars, pageVars, sortCall, dateCall, keyCall>>

\* initializeNavbar from the fetch resolved with the pages list: lines 709-732
\* (initializeThemeSwitcher marks the active button, line 826).
NavbarLoads(pages) ==
    /\ navPc = "fetching"
    /\ navPc' = "done"
    /\ navLinks' = IF "dynamic-nav-links" \in dom
                   THEN navLinksOf(pages, getCurrentPage(pathname)) ELSE navLinks
    /\ themeSwitcher' = IF "dynamic-theme-switcher" \in dom
                        THEN "createThemeSwitcher" ELSE themeSwitcher
    /\ activeThemeButton' = IF "dynamic-theme-switcher" \in dom
                            THEN getPreferredTheme(storedTheme, systemDark)
                            ELSE activeThemeButton
    /\ uncaught' = {}
    /\ consoleErrors' = {}
    /\ UNCHANGED <<pathname, dom, storedTheme, systemDark, appliedTheme, statsVars,
                   homeVars, pageVars, sortCall, dateCall, keyCall>>

\* initializeNavbar when fetch_json_file throws: lines 733-736.
NavbarFails ==
    /\ navPc = "fetching"
    /\ navPc' = "failed"
    /\ uncaught' = {}
    /\ consoleErrors' = {"There was a problem with the fetch operation",
                         "Error initializing navbar"}
    /\ UNCHANGED <<pathname, navLinks, themeSwitcher, dom, themeVars, statsVars,
                   homeVars, pageVars, sortCall, dateCall, keyCall>>

\* A page before its DOMContentLoaded listeners run, served under `path`.
NavInit(path) ==
    /\ pathname = path
    /\ navPc = "idle"
    /\ navLinks = StaticNav
    /\ themeSwitcher = "static"

NavIdle == NavInit(<<"/">>)

-----------------------------------------------------------------------------
(* Specifications *)

Init ==
    /\ PageInit
    /\ dom = AllCompetitionsElements
    /\ NoErrors
    /\ NavIdle
    /\ ThemeFixed
    /\ StatsInit
    /\ HomeInit
    /\ sortCall = SortIdle
    /\ dateCall = DateIdle
    /\ keyCall = KeyIdle

Next ==
    \/ \E column \in Headers1 : sortTable1(column)
    \/ \E column \in Headers2 : sortTable2(column)
    \/ \E column \in Headers3 : sortTable3(column)
    \/ \E d \in Docs : LoadSucceeds(d)
    \/ LoadFails

Spec == Init /\ [][Next]_vars

InitSort ==
    /\ PageInit
    /\ dom = AllCompetitionsElements
    /\ NoErrors
    /\ NavIdle
    /\ ThemeFixed
    /\ StatsInit
    /\ HomeInit
    /\ sortCall \in {[SortIdle EXCEPT !.pc = "ready", !.data = d, !.column = c,
                                      !.ascending = a] :
                        d \in SeqsUpTo(SortPool, MaxSortLen), c \in SortColumns,
                        a \in BOOLEAN}
    /\ dateCall = DateIdle
    /\ keyCall = KeyIdle

NextSort == CallSort \/ CallSortOpposite

SpecSort == InitSort /\ [][NextSort]_vars

InitDate ==
    /\ PageInit
    /\ dom = AllCompetitionsElements
    /\ NoErrors
    /\ NavIdle
    /\ ThemeFixed
    /\ StatsInit
    /\ HomeInit
    /\ sortCall = SortIdle
    /\ dateCall \in {[DateIdle EXCEPT !.pc = "ready", !.valA = a, !.valB = b] :
                        a \in DateInputs, b \in DateInputs}
    /\ keyCall = KeyIdle

NextDate == CallDates

SpecDate == InitDate /\ [][NextDate]_vars

InitKey ==
    /\ PageInit
    /\ dom = AllCompetitionsElements
    /\ NoErrors
    /\ NavIdle
    /\ ThemeFixed
    /\ StatsInit
    /\ HomeInit
    /\ sortCall = SortIdle
    /\ dateCall = DateIdle
    /\ keyCall \in {[KeyIdle EXCEPT !.pc = "ready", !.textA = a, !.textB = b] :
                       a \in KeyInputs, b \in KeyInputs}

NextKey == CallKeys

SpecKey == InitKey /\ [][NextKey]_vars

InitStats ==
    /\ PageInit
    /\ sortCall = SortIdle
    /\ dateCall = DateIdle
    /\ keyCall = KeyIdle
    /\ dom \in SUBSET StatisticsElements
    /\ NoErrors
    /\ NavIdle
    /\ ThemeInit
    /\ StatsInit
    /\ HomeInit

NextStats ==
    \/ \E year \in Years : change_data(year)
    \/ \E i \in 1..MaxFetches, jsonData \in Snapshots : StatsFetchSucceeds(i, jsonData)
    \/ \E i \in 1..MaxFetches : StatsFetchFails(i)
    \/ \E i \in 1..MaxDraws : TopologyArrives(i)
    \/ \E i \in 1..MaxDraws : TopologyFails(i)
    \/ \E theme \in ThemeValues : ThemeClick(theme)
    \/ SystemPreferenceChange

SpecStats == InitStats /\ [][NextStats]_vars

\* update_charts_by_year on its own: one fetch of statistics_main is in
\* flight for any of the years, and the server answers with any document.
InitAdapter ==
    /\ PageInit
    /\ sortCall = SortIdle
    /\ dateCall = DateIdle
    /\ keyCall = KeyIdle
    /\ dom = StatisticsElements
    /\ NoErrors
    /\ NavIdle
    /\ ThemeInit
    /\ currentYear = ThisYear
    /\ currentJsonData = Null
    /\ textYear \in AdapterYears
    /\ statsFetches = <<textYear>>
    /\ countyDraws = <<>>
    /\ charts = NoCharts
    /\ drawCalls = <<>>
    /\ themeChanged = ""
    /\ HomeInit

NextAdapter ==
    \/ \E jsonData \in AdapterSnapshots : StatsFetchSucceeds(1, jsonData)
    \/ TopologyArrives(1)

SpecAdapter == InitAdapter /\ [][NextAdapter]_vars

InitHome ==
    /\ PageInit
    /\ sortCall = SortIdle
    /\ dateCall = DateIdle
    /\ keyCall = KeyIdle
    /\ dom \in SUBSET HomeElements
    /\ NoErrors
    /\ NavIdle
    /\ ThemeFixed
    /\ StatsInit
    /\ HomeInit

NextHome ==
    \/ HomeDOMContentLoaded
    \/ \E year \in HomeYears : change_year(year)
    \/ \E i \in 1..MaxYearFetches, competitions \in YearDocs : YearFetchOk(i, competitions)
    \/ \E i \in 1..MaxYearFetches : YearFetchNotOk(i)
    \/ \E i \in 1..MaxYearFetches : YearFetchThrows(i)
    \/ \E versions \in VersionsDocs : VersionsOk(versions)
    \/ \E message \in {"Failed to load versions.json", "Error loading last update date"} :
          VersionsFail(message)

SpecHome == InitHome /\ [][NextHome]_vars

InitNav ==
    /\ PageInit
    /\ sortCall = SortIdle
    /\ dateCall = DateIdle
    /\ keyCall = KeyIdle
    /\ dom \in SUBSET NavElements
    /\ NoErrors
    /\ \E path \in Pathnames : NavInit(path)
    /\ ThemeFixed
    /\ StatsInit
    /\ HomeInit

NextNav ==
    \/ NavDOMContentLoaded
    \/ \E pages \in PagesDocs : NavbarLoads(pages)
    \/ NavbarFails

SpecNav == InitNav /\ [][NextNav]_vars

-----------------------------------------------------------------------------
(* Properties of the page *)

\* C1: the sorts never change the three source arrays: before the load they
\* are empty, and once the document is loaded each of them is, after any
\* sequence of sortTable1/2/3 calls, the array the document gave, in the
\* document's order.
C1_SourceArraysKeepLoadedOrder ==
    /\ loadPc # "done" =>
          /\ competitionsData = <<>>
          /\ moldovaCompetitionsData = <<>>
          /\ otherCompetitionsData = <<>>
    /\ loadPc = "done" =>
          /\ competitionsData = ArrayOrEmpty(doc, "competitions")
          /\ moldovaCompetitionsData = ArrayOrEmpty(doc, "competitions_moldova")
          /\ otherCompetitionsData = ArrayOrEmpty(doc, "competitions_other")

\* Table 1 shows two records in the order opposite to the source array's.
C1_Witness ==
    /\ loadPc = "done"
    /\ Len(competitionsData) = 2
    /\ sortState.table1 = [column |-> "id", ascending |-> TRUE]
    /\ tableBody.table1 = populateTable1(<<competitionsData[2], competitionsData[1]>>)
    /\ competitionsData[1] # competitionsData[2]

\* The sort state the specification's selectColumn gives.
SelectedState(state, column) ==
    IF column = state.column
    THEN [column |-> state.column, ascending |-> ~state.ascending]
    ELSE [column |-> column, ascending |-> TRUE]

\* C2: a click on a column of table N flips that table's ascending flag and
\* keeps its column when the column is the active one, and otherwise makes
\* the column active with ascending = TRUE.
C2_SelectColumnTogglesOrResets ==
    [][/\ \A c \in Headers1 :
             sortTable1(c) => sortState'.table1 = SelectedState(sortState.table1, c)
       /\ \A c \in Headers2 :
             sortTable2(c) => sortState'.table2 = SelectedState(sortState.table2, c)
       /\ \A c \in Headers3 :
             sortTable3(c) => sortState'.table3 = SelectedState(sortState.table3, c)]_vars

\* Table 1 was switched to 'id' and then toggled; table 2 was toggled on 'name'.
C2_Witness ==
    /\ sortState.table1 = [column |-> "id", ascending |-> FALSE]
    /\ sortState.table2 = [column |-> "name", ascending |-> FALSE]

\* What belongs to one table: its sort state, its body, its icons.
TableView(t) == <<sortState[t], tableBody[t], sortIcons[t]>>

\* C3: a click on a column of table k changes the sort state, body and icons
\* of table k only; those of the two other tables stay as they are.
C3_TablesIndependent ==
    [][/\ (\E c \in Headers1 : sortTable1(c)) =>
             UNCHANGED <<TableView("table2"), TableView("table3")>>
       /\ (\E c \in Headers2 : sortTable2(c)) =>
             UNCHANGED <<TableView("table1"), TableView("table3")>>
       /\ (\E c \in Headers3 : sortTable3(c)) =>
             UNCHANGED <<TableView("table1"), TableView("table2")>>]_vars

\* The three tables are in three different sort states, with data loaded.
C3_Witness ==
    /\ loadPc = "done"
    /\ sortState.table1 = [column |-> "id", ascending |-> FALSE]
    /\ sortState.table2 = [column |-> "year_2026", ascending |-> TRUE]
    /\ sortState.table3 = [column |-> "name", ascending |-> FALSE]
    /\ tableBody.table2 = populateTable2(<<MoldovaRows[2], MoldovaRows[1]>>)

-----------------------------------------------------------------------------
(* Properties of sortCompetitions (SpecSort) *)

SortDone == sortCall.pc \in {"sorted", "resorted"}

\* The value the comparator reads from a record: a missing or empty field
\* counts as the empty string.
FieldOf(record, column) ==
    IF column \in DOMAIN record /\ ~Falsy(record[column]) THEN record[column]
    ELSE Str(<<>>)

DateOf(record, column) == dateToSortableNumber(FieldOf(record, column))
IdOf(record) == Or(parseInt(FieldOf(record, "id")), Num(0)).n
TextKeyOf(record, column) == romanianSortKey(Str(ToString(FieldOf(record, column))))

Count(seq, x) == Cardinality({i \in 1..Len(seq) : seq[i] = x})
SameElements(s, t) ==
    /\ Len(s) = Len(t)
    /\ \A i \in 1..Len(s) : Count(s, s[i]) = Count(t, s[i])
Reverse(s) == [i \in 1..Len(s) |-> s[Len(s) + 1 - i]]

\* The records of seq from position i on whose date in the column is 0
\* (sentinel = TRUE) or is not 0 (sentinel = FALSE), in order.
RECURSIVE Pick(_, _, _, _)
Pick(seq, column, sentinel, i) ==
    IF i > Len(seq) THEN <<>>
    ELSE (IF (DateOf(seq[i], column) = 0) = sentinel THEN <<seq[i]>> ELSE <<>>)
             \o Pick(seq, column, sentinel, i + 1)

\* C4: sorted by a year_* column, in either direction, no record whose date
\* parses to 0 stands before a record whose date does not, and the records
\* with date 0 (equal for the comparator) stand in their input order.
C4_SentinelDatesLast ==
    (SortDone /\ sortCall.column \in YearColumns) =>
        /\ \A i, j \in 1..Len(sortCall.sorted) :
              (i < j /\ DateOf(sortCall.sorted[i], sortCall.column) = 0)
                  => DateOf(sortCall.sorted[j], sortCall.column) = 0
        /\ Pick(sortCall.sorted, sortCall.column, TRUE, 1)
              = Pick(sortCall.data, sortCall.column, TRUE, 1)

\* A descending sort moved a dated record from behind an undated one to the front.
C4_Witness ==
    /\ sortCall.pc = "resorted"
    /\ sortCall.column = "year_2026"
    /\ ~sortCall.ascending
    /\ Len(sortCall.data) = 3
    /\ DateOf(sortCall.data[1], "year_2026") = 0
    /\ DateOf(sortCall.data[2], "year_2026") = 124
    /\ DateOf(sortCall.data[3], "year_2026") = 0
    /\ sortCall.data[1] # sortCall.data[3]
    /\ sortCall.sorted = <<sortCall.data[2], sortCall.data[1], sortCall.data[3]>>

\* C7 as stated: the 'id' descending result is exactly the reverse of the
\* 'id' ascending result, records that share an id (or have none) included.
C7_DescendingIsReverse ==
    (sortCall.pc = "resorted" /\ sortCall.column = "id") =>
        sortCall.sorted = Reverse(sortCall.prev)

\* C7 amended: sorting by 'id' in the two directions gives two arrays of
\* equal length with the same multiset of elements, the numeric ids of the
\* one read backwards are those of the other, and the one is exactly the
\* reverse of the other when no two records have the same numeric id.
C7_DescendingReversesIds ==
    (sortCall.pc = "resorted" /\ sortCall.column = "id") =>
        /\ Len(sortCall.sorted) = Len(sortCall.prev)
        /\ SameElements(sortCall.sorted, sortCall.prev)
        /\ \A i \in 1..Len(sortCall.sorted) :
              IdOf(sortCall.sorted[i]) = IdOf(Reverse(sortCall.prev)[i])
        /\ (\A i, j \in 1..Len(sortCall.data) :
               i # j => IdOf(sortCall.data[i]) # IdOf(sortCall.data[j]))
              => sortCall.sorted = Reverse(sortCall.prev)

\* Three records with three different ids, sorted both ways.
C7_Witness ==
    /\ sortCall.pc = "resorted"
    /\ sortCall.column = "id"
    /\ Len(sortCall.data) = 3
    /\ \A i, j \in 1..3 : i # j => IdOf(sortCall.data[i]) # IdOf(sortCall.data[j])
    /\ sortCall.sorted # sortCall.data
    /\ sortCall.prev # sortCall.data

\* Record a is ranked strictly before record b by the column's order in the
\* requested direction: numbers for 'id', dates with 0 last for 'year_*',
\* collation keys for every other column.
RanksBefore(a, b, column, ascending) ==
    IF column = "id"
    THEN IF ascending THEN IdOf(a) < IdOf(b) ELSE IdOf(b) < IdOf(a)
    ELSE IF column \in YearColumns
    THEN /\ DateOf(a, column) # 0
         /\ \/ DateOf(b, column) = 0
            \/ IF ascending THEN DateOf(a, column) < DateOf(b, column)
               ELSE DateOf(b, column) < DateOf(a, column)
    ELSE IF ascending THEN StrLess(TextKeyOf(a, column), TextKeyOf(b, column))
         ELSE StrLess(TextKeyOf(b, column), TextKeyOf(a, column))

\* C8: the result of sortCompetitions is a permutation of its input in which
\* no record stands before a record that the column's order ranks strictly
\* before it; an empty input gives an empty result.
C8_SortedPermutation ==
    SortDone =>
        /\ SameElements(sortCall.sorted, sortCall.data)
        /\ \A i, j \in 1..Len(sortCall.sorted) :
              i < j => ~RanksBefore(sortCall.sorted[j], sortCall.sorted[i],
                                    sortCall.column, sortCall.ascending)
        /\ sortCall.data = <<>> => sortCall.sorted = <<>>

\* Ids "10" and "2" come out in numeric order, not in string order.
C8_Witness ==
    /\ sortCall.pc = "sorted"
    /\ sortCall.column = "id"
    /\ sortCall.ascending
    /\ Len(sortCall.data) = 2
    /\ FieldOf(sortCall.data[1], "id") = Str(<<"1", "0">>)
    /\ FieldOf(sortCall.data[2], "id") = Str(<<"2">>)
    /\ sortCall.sorted = <<sortCall.data[2], sortCall.data[1]>>

\* C9: on a text column (neither 'id' nor 'year_*', a column no record has
\* included) two records with different collation keys stand in the order of
\* their keys when ascending and in the opposite order when descending, and a
\* record without the field has the key of the empty string.
C9_TextColumnsByCollationKey ==
    (SortDone /\ sortCall.column # "id" /\ sortCall.column \notin YearColumns) =>
        /\ \A i, j \in 1..Len(sortCall.sorted) :
              LET keyI == TextKeyOf(sortCall.sorted[i], sortCall.column)
                  keyJ == TextKeyOf(sortCall.sorted[j], sortCall.column)
              IN  (i < j /\ keyI # keyJ) =>
                      IF sortCall.ascending THEN StrLess(keyI, keyJ)
                      ELSE StrLess(keyJ, keyI)
        /\ \A i \in 1..Len(sortCall.sorted) :
              Get(sortCall.sorted[i], sortCall.column) = Undefined
                  => TextKeyOf(sortCall.sorted[i], sortCall.column) = <<>>

\* "B" was sorted after "Az" and the name with A-breve, whose code units are
\* larger, and a record without a name came first.
C9_Witness ==
    /\ sortCall.pc = "sorted"
    /\ sortCall.column = "name"
    /\ sortCall.ascending
    /\ Len(sortCall.data) = 3
    /\ Get(sortCall.data[1], "name") = Str(<<"B">>)
    /\ Get(sortCall.data[2], "name") = Str(<<"A_breve", "b">>)
    /\ Get(sortCall.data[3], "name") = Undefined
    /\ sortCall.sorted = <<sortCall.data[3], sortCall.data[2], sortCall.data[1]>>

-----------------------------------------------------------------------------
(* Properties of dateToSortableNumber (SpecDate) *)

IsLetter(c) == c \in Range(UpperLetters) \cup Range(LowerLetters)
IsDigit(c) == c \in Range(DecimalDigits)

\* s is "<day-name> <day>-<month-name>" with its space at i and its hyphen at
\* j: letters, a space, digits, a hyphen, letters.
ShapedAt(s, i, j) ==
    /\ 1 < i /\ i + 1 < j /\ j < Len(s)
    /\ s[i] = " " /\ s[j] = "-"
    /\ \A k \in 1..(i - 1) : IsLetter(s[k])
    /\ \A k \in (i + 1)..(j - 1) : IsDigit(s[k])
    /\ \A k \in (j + 1)..Len(s) : IsLetter(s[k])

\* The inputs C5 says give 0: the empty string, a string not of the shape,
\* a string whose month name is none of the twelve.
SaidUnparseable(s) ==
    \A i, j \in 1..Len(s) :
        ShapedAt(s, i, j) => SubSeq(s, j + 1, Len(s)) \notin Range(MonthNames)

\* C5 as stated: dateToSortableNumber gives 0 for the empty string, for a
\* string that is not of the shape "<day-name> <day>-<month-name>" and for a
\* month name outside the table.
C5_UnparseableGivesZero ==
    dateCall.pc = "done" =>
        /\ SaidUnparseable(dateCall.valA.s) => dateCall.dateA = 0
        /\ SaidUnparseable(dateCall.valB.s) => dateCall.dateB = 0

\* C6: for "<day-name> D-Mon" with D a day of the month and Mon the m-th
\* month name the result is m * 100 + D, and of two such dates the earlier
\* in the year has the smaller number.
C6_WellFormedGivesMonthDay ==
    dateCall.pc = "done" =>
        \A nameA \in DayNames, dayA \in 1..31, monthA \in 1..12 :
            /\ dateCall.valB = Str(DateString(nameA, dayA, monthA))
                  => dateCall.dateB = monthA * 100 + dayA
            /\ dateCall.valA = Str(DateString(nameA, dayA, monthA)) =>
                  /\ dateCall.dateA = monthA * 100 + dayA
                  /\ \A nameB \in DayNames, dayB \in 1..31, monthB \in 1..12 :
                        dateCall.valB = Str(DateString(nameB, dayB, monthB)) =>
                            (dateCall.dateA < dateCall.dateB
                                <=> (monthA < monthB \/ (monthA = monthB /\ dayA < dayB)))

\* "Sat 24-Jan" gave 124 and "Sun 5-Feb", later in the year, gave 205.
C6_Witness ==
    /\ dateCall.pc = "done"
    /\ dateCall.valA = Str(<<"S","a","t"," ","2","4","-","J","a","n">>)
    /\ dateCall.dateA = 124
    /\ dateCall.valB = Str(<<"S","u","n"," ","5","-","F","e","b">>)
    /\ dateCall.dateB = 205

-----------------------------------------------------------------------------
(* Properties of romanianSortKey (SpecKey) *)

\* The plain letter of each of the ten letters with a diacritic.
BaseLetter(c) ==
    CASE c \in {"a_breve", "A_breve", "a_circ", "A_circ"} -> "a"
      [] c \in {"i_circ", "I_circ"} -> "i"
      [] c \in {"s_comma", "S_comma"} -> "s"
      [] c \in {"t_comma", "T_comma"} -> "t"

NextLetter(c) == LowerLetters[IndexOf(LowerLetters, c) + 1]

\* C10: romanianSortKey gives '' for undefined and for the empty string;
\* its result holds no upper-case letter and none of the ten letters with a
\* diacritic; a word that begins with a diacritic variant of a letter gets a
\* key after that of every word beginning with the plain letter and a
\* further letter, and before that of every word beginning with the next
\* letter of the alphabet; and two words without diacritics have their keys
\* in the order of their lower-cased forms.
C10_KeyKeepsDiacriticsByBase ==
    keyCall.pc = "done" =>
        /\ Falsy(keyCall.textA) => keyCall.keyA = <<>>
        /\ \A i \in 1..Len(keyCall.keyA) :
              /\ keyCall.keyA[i] \notin Diacritics
              /\ keyCall.keyA[i] \notin Range(UpperLetters)
        /\ (Len(keyCall.textA.s) >= 1 /\ keyCall.textA.s[1] \in Diacritics) =>
              LET base == BaseLetter(keyCall.textA.s[1])
                  b == keyCall.textB.s
              IN  /\ (Len(b) >= 2 /\ b[1] \in {base, UpperLetters[IndexOf(LowerLetters, base)]}
                         /\ (IsLetter(b[2]) \/ b[2] \in Diacritics))
                        => StrLess(keyCall.keyB, keyCall.keyA)
                  /\ (Len(b) >= 1 /\ LowerChar(b[1]) = NextLetter(base))
                        => StrLess(keyCall.keyA, keyCall.keyB)
        /\ (Range(keyCall.textA.s) \cup Range(keyCall.textB.s)) \cap Diacritics = {} =>
              (StrLess(keyCall.keyA, keyCall.keyB)
                  <=> StrLess(toLowerCase(keyCall.textA.s), toLowerCase(keyCall.textB.s)))

\* The key of a word in A-breve lies between those of "Az" and of "b..."
\* words: here after the key of "Az".
C10_Witness ==
    /\ keyCall.pc = "done"
    /\ keyCall.textA = Str(<<"A_breve", "b">>)
    /\ keyCall.keyA = <<"a", "~", "1", "b">>
    /\ keyCall.textB = Str(<<"A", "z">>)
    /\ keyCall.keyB = <<"a", "z">>

-----------------------------------------------------------------------------
(* Properties of the page: repeated clicks, the load, the table bodies *)

\* The rendered records of a table body: the cells of its data rows, in the
\* body's order (a message row shows no record).
ShownRecords(body) == [i \in 1..Len(SelectSeq(body, LAMBDA row : row.kind = "data")) |->
                          SelectSeq(body, LAMBDA row : row.kind = "data")[i].cells]

\* The body of table 1 after one more click on `column` in the state the
\* current step ends in.
Table1AfterSecondClick(column) ==
    populateTable1(sortCompetitions(competitionsData', column,
                       toggleSortState(sortState'.table1, column).ascending).sorted)

Table2AfterSecondClick(column) ==
    populateTable2(sortCompetitions(moldovaCompetitionsData', column,
                       toggleSortState(sortState'.table2, column).ascending).sorted)

Table3AfterSecondClick(column) ==
    populateTable3(sortCompetitions(otherCompetitionsData', column,
                       toggleSortState(sortState'.table3, column).ascending).sorted)

\* C11 as stated: when a table's state is (c, ascending) and column c is
\* clicked twice in a row, the state is (c, ascending) again and the table
\* shows its records in the order it showed them before the two clicks.
\* The step is the first click; the second click is the handler applied to
\* the state the first one leaves.
C11_TwoClicksRestoreStateAndOrder ==
    [][/\ \A c \in Headers1 :
             sortTable1(c) /\ sortState.table1 = [column |-> c, ascending |-> TRUE]
             => /\ toggleSortState(sortState'.table1, c) = sortState.table1
                /\ ShownRecords(Table1AfterSecondClick(c)) = ShownRecords(tableBody.table1)
       /\ \A c \in Headers2 :
             sortTable2(c) /\ sortState.table2 = [column |-> c, ascending |-> TRUE]
             => /\ toggleSortState(sortState'.table2, c) = sortState.table2
                /\ ShownRecords(Table2AfterSecondClick(c)) = ShownRecords(tableBody.table2)
       /\ \A c \in Headers3 :
             sortTable3(c) /\ sortState.table3 = [column |-> c, ascending |-> TRUE]
             => /\ toggleSortState(sortState'.table3, c) = sortState.table3
                /\ ShownRecords(Table3AfterSecondClick(c)) = ShownRecords(tableBody.table3)]_vars

\* The collation key of the cell at position `cell` of each data row.
ShownKeys(body, cell) ==
    [i \in 1..Len(ShownRecords(body)) |-> romanianSortKey(Str(ShownRecords(body)[i][cell]))]

NonDecreasing(keys) == \A i \in 1..(Len(keys) - 1) : ~StrLess(keys[i + 1], keys[i])

NameAscendingIcons(headers) ==
    [h \in headers |-> IF h = "name" THEN "bi bi-sort-alpha-down" ELSE "bi bi-arrow-down-up"]

InitialSortState == [column |-> "name", ascending |-> TRUE]

\* C12: the three sort states start as ('name', ascending), and the step in
\* which loadAllCompetitions succeeds leaves every table showing one row per
\* record of its array (the rows of the array, rearranged), the name cells
\* in non-decreasing collation order, the icon of 'name' showing ascending
\* and every other icon neutral.
C12_LoadShowsNameAscending ==
    /\ sortState = [table1 |-> InitialSortState, table2 |-> InitialSortState,
                    table3 |-> InitialSortState]
    /\ [][\A d \in Docs : LoadSucceeds(d) =>
            /\ SameElements(tableBody'.table1, populateTable1(competitionsData'))
            /\ SameElements(tableBody'.table2, populateTable2(moldovaCompetitionsData'))
            /\ SameElements(tableBody'.table3, populateTable3(otherCompetitionsData'))
            /\ Len(ShownRecords(tableBody'.table1)) = Len(ArrayOrEmpty(d, "competitions"))
            /\ Len(ShownRecords(tableBody'.table2)) = Len(ArrayOrEmpty(d, "competitions_moldova"))
            /\ Len(ShownRecords(tableBody'.table3)) = Len(ArrayOrEmpty(d, "competitions_other"))
            /\ NonDecreasing(ShownKeys(tableBody'.table1, 2))
            /\ NonDecreasing(ShownKeys(tableBody'.table2, 1))
            /\ NonDecreasing(ShownKeys(tableBody'.table3, 1))
            /\ sortIcons'.table1 = NameAscendingIcons(Headers1)
            /\ sortIcons'.table2 = NameAscendingIcons(Headers2)
            /\ sortIcons'.table3 = NameAscendingIcons(Headers3)]_vars

\* The document listed B before A-breve and table 1 shows A-breve first; the
\* document listed 'T' before 'b' and table 3 shows 'b' first.
C12_Witness ==
    /\ loadPc = "done"
    /\ Len(competitionsData) = 2
    /\ competitionsData[1].name = Str(<<"B">>)
    /\ competitionsData[2].name = Str(<<"A_breve">>)
    /\ ShownKeys(tableBody.table1, 2) = << <<"a", "~", "1">>, <<"b">> >>
    /\ ShownKeys(tableBody.table3, 1) = << <<"b">>, <<"t">> >>
    /\ sortIcons.table1 = NameAscendingIcons(Headers1)

\* `body` is what a table of `columns` columns shows for the array arr: one
\* placeholder row spanning the columns when arr is empty, else one row of
\* `columns` cells per record, row i holding the name and the 2026 date of
\* the i-th record.
RendersArray(body, arr, columns, nameCell) ==
    IF arr = <<>>
    THEN body = <<[kind |-> "empty", colspan |-> columns, cells |-> <<>>]>>
    ELSE /\ Len(body) = Len(arr)
         /\ \A i \in 1..Len(arr) :
               /\ body[i].kind = "data"
               /\ Len(body[i].cells) = columns
               /\ body[i].cells[nameCell] = CellText(Get(arr[i], "name"))
               /\ body[i].cells[columns - 3] = CellText(Get(arr[i], "year_2026"))

SortedBy(data, column, ascending) == sortCompetitions(data, column, ascending).sorted

\* C20: every rendering of a table (a click on a header, the successful
\* load) leaves the body holding exactly one 'No competitions found' row
\* spanning 8, 6 or 5 columns when the rendered array is empty or missing
\* from the document, and otherwise exactly one row per record of the
\* rendered array, in the array's order, whatever the body held before.
C20_BodyIsPlaceholderOrOneRowPerRecord ==
    [][/\ \A c \in Headers1 : sortTable1(c) =>
             RendersArray(tableBody'.table1,
                          SortedBy(competitionsData, c, sortState'.table1.ascending), 8, 2)
       /\ \A c \in Headers2 : sortTable2(c) =>
             RendersArray(tableBody'.table2,
                          SortedBy(moldovaCompetitionsData, c, sortState'.table2.ascending), 6, 1)
       /\ \A c \in Headers3 : sortTable3(c) =>
             RendersArray(tableBody'.table3,
                          SortedBy(otherCompetitionsData, c, sortState'.table3.ascending), 5, 1)
       /\ \A d \in Docs : LoadSucceeds(d) =>
             /\ RendersArray(tableBody'.table1,
                             SortedBy(ArrayOrEmpty(d, "competitions"), "name", TRUE), 8, 2)
             /\ RendersArray(tableBody'.table2,
                             SortedBy(ArrayOrEmpty(d, "competitions_moldova"), "name", TRUE), 6, 1)
             /\ RendersArray(tableBody'.table3,
                             SortedBy(ArrayOrEmpty(d, "competitions_other"), "name", TRUE), 5, 1)]_vars

\* The document had two records for table 1, which was then re-sorted by
\* click, no 'competitions_moldova' key, so that table 2 shows the
\* placeholder, and two records for table 3.
C20_Witness ==
    /\ loadPc = "done"
    /\ "competitions_moldova" \notin doc.present
    /\ tableBody.table2 = <<[kind |-> "empty", colspan |-> 6, cells |-> <<>>]>>
    /\ Len(tableBody.table1) = 2
    /\ sortState.table1 = [column |-> "year_2026", ascending |-> FALSE]
    /\ Len(tableBody.table3) = 2
    /\ Len(tableBody.table3[1].cells) = 5

-----------------------------------------------------------------------------
(* Properties of update_charts_by_year (SpecAdapter) *)

\* The five arguments handed to the charting engine for the retained year:
\* the four charts drawn at once, and the county series, which is in
\* countyDraws until the topology arrives and in the map afterwards.
Drawn == charts.total # <<>>

CountySeries == IF countyDraws # <<>> THEN countyDraws[1].data ELSE charts.county[1].data

AbsentEverywhere(jsonData, year) ==
    /\ year \notin DOMAIN jsonData.total_competitions
    /\ year \notin DOMAIN jsonData.competitions_by_month
    /\ year \notin DOMAIN jsonData.competitions_by_type
    /\ year \notin DOMAIN jsonData.competitions_by_county
    /\ year \notin DOMAIN jsonData.competitions_by_towns

DefaultsExceptCounty ==
    /\ charts.total[1].data = 0
    /\ charts.months[1].data = [m \in 1..12 |-> 0]
    /\ charts.type[1].data = [trail |-> 0, road |-> 0, other |-> 0]
    /\ charts.towns[1].data = <<>>

AllZeroPairs(series) ==
    /\ \A i \in 1..Len(series) : series[i][2] = Num(0)
    /\ Cardinality({series[i][1] : i \in 1..Len(series)}) = Len(series)

\* C13 as stated: for a year absent from every mapping of the document the
\* engine is handed total 0, twelve zero months, the all-zero type object,
\* an empty towns mapping and a county series of exactly 41 pairs
\* [code, 0].
C13_AbsentYearGives41ZeroPairs ==
    Drawn /\ AbsentEverywhere(currentJsonData, currentYear)
    => /\ DefaultsExceptCounty
       /\ AllZeroPairs(CountySeries)
       /\ Len(CountySeries) = 41

\* C13 amended: the same, with a county series of exactly 42 pairs
\* [code, 0] of pairwise different codes, 'ro-bi' (Bucharest) among them.
C13_AbsentYearGives42ZeroPairs ==
    Drawn /\ AbsentEverywhere(currentJsonData, currentYear)
    => /\ DefaultsExceptCounty
       /\ AllZeroPairs(CountySeries)
       /\ Len(CountySeries) = 42
       /\ \E i \in 1..42 : CountySeries[i][1] = "ro-bi"

\* Year 2026 of the first document, drawn, the map included.
C13_Witness ==
    /\ Drawn
    /\ currentYear = 2026
    /\ currentJsonData = SnapshotA
    /\ charts.county # <<>>
    /\ charts.county[1].data[42] = <<"ro-vn", Num(0)>>
    /\ textYear = 2026

\* The count the source object has for a key, 0 when it has none.
CountOrZero(county, key) == IF key \in DOMAIN county THEN Num(county[key]) ELSE Num(0)

\* C14 as stated: for a year the county mapping has, the series is 41
\* pairs, in the fixed order of the codes, each code with the count of its
\* key in the source object and with 0 when the object has no such key.
C14_PresentYearGivesCountsOrZero ==
    Drawn /\ currentYear \in DOMAIN currentJsonData.competitions_by_county
    => /\ Len(CountySeries) = 41
       /\ \A i \in 1..Len(CountySeries) :
             /\ CountySeries[i][1] = CountyCodes[i][1]
             /\ CountySeries[i][2] =
                   CountOrZero(currentJsonData.competitions_by_county[currentYear],
                               CountyCodes[i][2])

-----------------------------------------------------------------------------
(* Properties of the statistics page (SpecStats) *)

StatsFetchFailed == \E i \in 1..MaxFetches : StatsFetchFails(i)
TopologyFailed == \E i \in 1..MaxDraws : TopologyFails(i)

\* What the statistics page shows: the year label and the five charts.
StatsView == <<textYear, charts>>

\* C15 as stated, for the two fetches of the statistics page: when the fetch
\* of the statistics document or of the map topology fails, nothing reaches
\* the global error handler and the page shows something it did not show
\* before (the message that replaces the panel's content).
C15_FetchFailuresCaughtAndShown ==
    [][StatsFetchFailed \/ TopologyFailed
       => uncaught' = {} /\ StatsView' # StatsView]_vars

ThemeChangedDispatched ==
    \/ \E theme \in ThemeValues : ThemeClick(theme)
    \/ SystemPreferenceChange /\ storedTheme \notin {"light", "dark"}

Last(seq) == seq[Len(seq)]

BackgroundOf(theme) == IF theme = "dark" THEN "#212529" ELSE "#ffffff"

\* A chart keeps its data and is drawn again with the colors of `theme`.
RedrawnWith(before, after, theme) ==
    /\ after[1].data = before[1].data
    /\ after[1].colors.backgroundColor = BackgroundOf(theme)
    /\ after[1].colors = getThemeColors(theme)

\* C17: a step that dispatches themeChanged issues no fetch of the
\* statistics document; when charts have been rendered it makes the five
\* draw calls with the retained year and document (which it keeps) and the
\* colors of the theme the step applies, the county series going to a new
\* draw_highcharts_county call; before any successful load it makes no draw
\* call and changes no chart.
C17_ThemeChangeRedrawsRetained ==
    [][ThemeChangedDispatched
       => /\ statsFetches' = statsFetches
          /\ Drawn =>
                /\ drawCalls' = <<"total", "months", "type", "county", "towns">>
                /\ currentYear' = currentYear
                /\ currentJsonData' = currentJsonData
                /\ RedrawnWith(charts.total, charts'.total, appliedTheme')
                /\ RedrawnWith(charts.months, charts'.months, appliedTheme')
                /\ RedrawnWith(charts.type, charts'.type, appliedTheme')
                /\ RedrawnWith(charts.towns, charts'.towns, appliedTheme')
                /\ Len(countyDraws') = Len(countyDraws) + 1
                /\ Last(countyDraws').data =
                       competitions_by_county(currentJsonData, currentYear)
                /\ Last(countyDraws').colors = getThemeColors(appliedTheme')
          /\ currentJsonData = Null =>
                /\ drawCalls' = <<>>
                /\ charts' = charts
                /\ countyDraws' = countyDraws]_vars

\* Year 2025 was rendered in the light theme, map included, and a theme
\* change to dark has redrawn it: the four charts are dark and the dark map
\* is awaiting the topology.
C17_Witness ==
    /\ currentYear = 2025
    /\ statsFetches = <<>>
    /\ appliedTheme = "dark"
    /\ drawCalls = <<"total", "months", "type", "county", "towns">>
    /\ charts.county # <<>>
    /\ charts.county[1].colors = getThemeColors("light")
    /\ charts.total[1] = Chart(120, getThemeColors("dark"))
    /\ countyDraws = <<Chart(charts.county[1].data, getThemeColors("dark"))>>

\* C18 as stated: a failed fetch of the statistics document surfaces an
\* error to the user (the page shows something it did not show before),
\* keeps the retained year and document and ends that load; a fetch is
\* issued only by a year selection, never by the failure or by any other
\* step; and a year selection after the failure starts a new load.
C18_FailureSurfacedAndNotRetried ==
    [][/\ StatsFetchFailed
          => /\ StatsView' # StatsView
             /\ currentYear' = currentYear
             /\ currentJsonData' = currentJsonData
             /\ Len(statsFetches') = Len(statsFetches) - 1
       /\ Len(statsFetches') > Len(statsFetches)
          => \E year \in Years : change_data(year)
       /\ \A year \in Years :
             change_data(year) => statsFetches' = Append(statsFetches, year)]_vars

\* The parts of C18 other than the surfaced error.
NotRetried ==
    [][/\ StatsFetchFailed
          => /\ currentYear' = currentYear
             /\ currentJsonData' = currentJsonData
             /\ Len(statsFetches') = Len(statsFetches) - 1
       /\ Len(statsFetches') > Len(statsFetches)
          => \E year \in Years : change_data(year)
       /\ \A year \in Years :
             change_data(year) => statsFetches' = Append(statsFetches, year)]_vars

-----------------------------------------------------------------------------
(* Properties of the home page (SpecHome) *)

\* C16: a year selection leaves every fetch already in flight in flight
\* and adds its own (nothing is cancelled), and every response that
\* arrives with a document replaces the container's content by the table
\* of the year it was fetched for, whichever year the label shows and
\* whichever response was rendered before.
C16_StaleResponseOverwrites ==
    [][/\ \A year \in HomeYears :
             change_year(year) /\ "text_year" \in dom
             => yearFetches' = Append(yearFetches, year)
       /\ \A i \in 1..MaxYearFetches, competitions \in YearDocs :
             YearFetchOk(i, competitions) /\ "competitions-container" \in dom
             => /\ container'.kind = "table"
                /\ container'.year = yearFetches[i]
                /\ Len(container'.rows) = Len(competitions)]_vars

\* No fetch is in flight, the label shows the year selected last, 2024, and
\* the container shows the table of 2026.
C16_Witness ==
    /\ yearFetches = <<>>
    /\ currentCompetitionYear = 2024
    /\ textYear = 2024
    /\ container.kind = "table"
    /\ container.year = 2026
    /\ Len(container.rows) = 2

\* C19 as stated: whatever elements the page lacks, no handler raises an
\* error: a write to a missing element is skipped.
C19_MissingContainersAreSkipped == uncaught = {}

-----------------------------------------------------------------------------
(* Properties of the all-competitions page: the cells, the display and     *)
(* the sort state                                                          *)

\* A field a record does not have, or has as null or as the empty string.
MissingField(competition, field) ==
    \/ Get(competition, field).t \in {"undefined", "null"}
    \/ Get(competition, field) = Str(<<>>)

LiteralUndefined == <<"u","n","d","e","f","i","n","e","d">>
LiteralNull == <<"n","u","l","l">>

\* The cell shows the field as plain text: the field's own text, and the
\* empty text when the field is missing.
ShowsField(cell, competition, field) ==
    /\ cell \in Seq(Chars)
    /\ MissingField(competition, field) => cell = <<>>
    /\ ~MissingField(competition, field) => cell = competition[field].s

\* Every data row of `body` shows one of the records of `data` (the body
\* holds them in sorted order), one cell per column, and no cell is the
\* text 'undefined' or 'null'.
CellsArePlainText(body, data, columns) ==
    \A i \in 1..Len(body) :
        body[i].kind = "data" =>
            /\ Len(body) = Len(data)
            /\ Len(body[i].cells) = Len(columns)
            /\ \E k \in 1..Len(data) :
                  \A j \in 1..Len(columns) :
                      ShowsField(body[i].cells[j], data[k], columns[j])
            /\ \A j \in 1..Len(columns) :
                  body[i].cells[j] \notin {LiteralUndefined, LiteralNull}

\* C21: in the three tables every cell of a data row is the text of the
\* field of the record the row shows, the empty text when the record lacks
\* the field or has it as undefined, null or the empty string; no cell is
\* the text 'undefined' or 'null'.
C21_MissingFieldsAreEmptyCells ==
    /\ CellsArePlainText(tableBody.table1, competitionsData,
                         <<"id", "name", "location", "county">> \o YearKeys)
    /\ CellsArePlainText(tableBody.table2, moldovaCompetitionsData,
                         <<"name", "location">> \o YearKeys)
    /\ CellsArePlainText(tableBody.table3, otherCompetitionsData,
                         <<"name">> \o YearKeys)

\* Table 1 shows the record whose location is null and the record whose
\* county is the empty string and whose year_2026 is undefined.
C21_Witness ==
    /\ Len(tableBody.table1) = 2
    /\ \E k \in 1..2 : Get(competitionsData[k], "location") = Null
    /\ \E k \in 1..2 : /\ Get(competitionsData[k], "year_2026") = Undefined
                        /\ Get(competitionsData[k], "county") = Str(<<>>)
    /\ \E i \in 1..2 : /\ tableBody.table1[i].kind = "data"
                        /\ tableBody.table1[i].cells[2] = <<"A_breve">>
                        /\ tableBody.table1[i].cells[3] = <<>>
    /\ \E i \in 1..2 : /\ tableBody.table1[i].kind = "data"
                        /\ tableBody.table1[i].cells[2] = <<"B">>
                        /\ tableBody.table1[i].cells[4] = <<>>
                        /\ tableBody.table1[i].cells[5] = <<>>

-----------------------------------------------------------------------------
(* Properties of romanianSortKey on plain text (SpecKey) *)

PlainAscii(text) == text.t = "string" /\ \A i \in 1..Len(text.s) : text.s[i] \notin Diacritics

\* The ASCII letter in lower case, any other character as it is.
AsciiLower(c) ==
    IF c \in Range(UpperLetters) THEN LowerLetters[IndexOf(UpperLetters, c)] ELSE c

\* `key` is the key of the plain text `text`: the text in lower case, and
\* the key of that key is the key itself.
PlainKey(text, key) ==
    /\ key = [i \in 1..Len(text.s) |-> AsciiLower(text.s[i])]
    /\ romanianSortKey(Str(key)) = key

\* C22: the key romanianSortKey returned for a plain-ASCII string is the
\* string in lower case, and the key of that key is the same key.
C22_KeyOfPlainTextIsIdempotent ==
    keyCall.pc = "done" =>
        /\ PlainAscii(keyCall.textA) => PlainKey(keyCall.textA, keyCall.keyA)
        /\ PlainAscii(keyCall.textB) => PlainKey(keyCall.textB, keyCall.keyB)

\* The keys of 'As' and of 'zb' have been computed.
C22_Witness ==
    /\ keyCall.pc = "done"
    /\ keyCall.textA = Str(<<"A", "s">>)
    /\ keyCall.keyA = <<"a", "s">>
    /\ keyCall.textB = Str(<<"z", "b">>)
    /\ keyCall.keyB = <<"z", "b">>

-----------------------------------------------------------------------------
(* Properties of the home page: the version badges and the three outcomes *)
(* of a year's load (SpecHome)                                            *)

BothBadges == {"last-update-date", "version-number"} \subseteq dom

\* Entry k has the highest numeric version_id of the list.
HighestId(versions, k) ==
    \A j \in 1..Len(versions) :
        parseInt(versions[j].version_id).n <= parseInt(versions[k].version_id).n

\* The badges the page has show the version_id and the date of `version`.
BadgesShow(version) ==
    /\ "version-number" \in dom => badges'.version = version.version_id.s
    /\ "last-update-date" \in dom => badges'.date = formattedDate(version.date)

\* C23: when the versions document arrives with a non-empty list, the
\* badges show the version_id and the date of an entry with the highest
\* numeric version_id, in whatever order the list holds its entries; when
\* the list is empty or the document cannot be fetched, both badges of a
\* page that has them show 'N/A'.
C23_BadgesShowLatestVersion ==
    [][/\ \A versions \in VersionsDocs :
             VersionsOk(versions) /\ versions # <<>>
             => \E k \in 1..Len(versions) :
                   HighestId(versions, k) /\ BadgesShow(versions[k])
       /\ \A message \in {"Failed to load versions.json",
                           "Error loading last update date"} :
             (VersionsOk(<<>>) \/ VersionsFail(message)) /\ BothBadges
             => badges' = [date |-> <<"N", "/", "A">>, version |-> <<"N", "/", "A">>]]_vars

\* The badges show version 10 of 5 January 2026.
C23_Witness ==
    /\ versionsPc = "done"
    /\ badges = [date |-> <<"0","5","-","J","a","n","-","2","0","2","6">>,
                 version |-> <<"1","0">>]

HasContainer == "competitions-container" \in dom

\* The container's new content is the outcome `kind` for `year`, and the
\* year label is the one the step found.
Outcome(kind, year) ==
    /\ container'.kind = kind
    /\ container'.year = year
    /\ textYear' = textYear

-----------------------------------------------------------------------------
(* Properties of the theme (SpecStats) *)

ExplicitPreference == storedTheme \in {"light", "dark"}

\* The applied theme is the stored preference when that is 'light' or
\* 'dark', and the system's preference when it is 'auto' or absent.
ThemeMatchesPreference ==
    /\ ExplicitPreference => appliedTheme = storedTheme
    /\ storedTheme \in {"auto", ""} =>
          appliedTheme = (IF systemDark THEN "dark" ELSE "light")

\* C24: between handlers the applied theme matches the preference (after
\* the initial load, after every click on a theme button and after every
\* change of the system preference), and a click stores the clicked value.
C24_AppliedThemeFollowsPreference ==
    /\ []ThemeMatchesPreference
    /\ [][\A theme \in ThemeValues : ThemeClick(theme) => storedTheme' = theme]_vars

\* 'auto' is stored and marked active, and the system preference has
\* changed to dark since the charts were last drawn in the light theme.
C24_Witness ==
    /\ storedTheme = "auto"
    /\ activeThemeButton = "auto"
    /\ systemDark
    /\ appliedTheme = "dark"
    /\ charts.county # <<>>
    /\ charts.county[1].colors = getThemeColors("light")

\* C30: while the stored preference is 'light' or 'dark', a change of the
\* system preference leaves the applied theme and the stored preference as
\* they are, dispatches no themeChanged and redraws no chart; a step that
\* dispatches themeChanged is a click on a theme button or a change of the
\* system preference while the stored preference is neither 'light' nor
\* 'dark'; and the event is dispatched with the theme the step applies.
C30_SystemChangeKeepsExplicitTheme ==
    [][/\ SystemPreferenceChange /\ ExplicitPreference
          => /\ appliedTheme' = appliedTheme
             /\ storedTheme' = storedTheme
             /\ themeChanged' = ""
             /\ drawCalls' = <<>>
             /\ charts' = charts
             /\ countyDraws' = countyDraws
       /\ themeChanged' # ""
          => /\ \/ \E theme \in ThemeValues : ThemeClick(theme)
                \/ SystemPreferenceChange /\ ~ExplicitPreference
             /\ themeChanged' = appliedTheme']_vars

\* 'dark' is stored and applied, the charts are drawn in the dark theme,
\* the system preference is light, and the last handler dispatched nothing.
C30_Witness ==
    /\ storedTheme = "dark"
    /\ appliedTheme = "dark"
    /\ ~systemDark
    /\ themeChanged = ""
    /\ drawCalls = <<>>
    /\ countyDraws = <<>>
    /\ charts.total # <<>>
    /\ charts.total[1].colors = getThemeColors("dark")
    /\ charts.county # <<>>
    /\ charts.county[1].colors = getThemeColors("dark")

-----------------------------------------------------------------------------
(* Properties of the statistics page: the county map and the year label   *)
(* (SpecStats)                                                            *)

Quiescent == statsFetches = <<>> /\ countyDraws = <<>>

\* C28 as stated: when no fetch is in flight (statistics document or map
\* topology) and the five charts are on screen, the county map shows the
\* series of the year of the other four charts, in their colors.
C28_MapAgreesWithOtherCharts ==
    Quiescent /\ Drawn /\ charts.county # <<>>
    => /\ charts.county[1].data = competitions_by_county(currentJsonData, currentYear)
       /\ charts.county[1].colors = charts.total[1].colors

\* C29 as stated: when no fetch of the statistics document is in flight
\* and charts have been drawn, the year label shows currentYear.
C29_LabelShowsChartYear ==
    statsFetches = <<>> /\ Drawn => textYear = currentYear

-----------------------------------------------------------------------------
(* Properties of the navigation bar (SpecNav) *)

\* The text after the last '/' of the path.
LastSegment(path) ==
    SubSeq(path,
           1 + (CHOOSE k \in 0..Len(path) :
                   /\ k > 0 => path[k] = "/"
                   /\ \A j \in (k + 1)..Len(path) : path[j] # "/"),
           Len(path))

\* The filename of the current page: 'index.html' for an empty last segment.
CurrentFile(path) ==
    IF LastSegment(path) = <<>>
    THEN <<"i","n","d","e","x",".","h","t","m","l">>
    ELSE LastSegment(path)

MarkedActive(link) == link.class = "nav-link active" /\ link.ariaCurrent = "page"
NotMarked(link) == link.class = "nav-link" /\ link.ariaCurrent = ""

\* C25: when the pages list arrives, the navigation container holds one
\* link per entry of the list, in the list's order, each with the entry's
\* name and link, marked active (class and aria-current) exactly when its
\* page_link is the filename of the current page; when the list cannot be
\* fetched the container keeps its content.
C25_OneLinkPerPageActiveOnCurrent ==
    [][/\ \A pages \in PagesDocs :
             NavbarLoads(pages) /\ "dynamic-nav-links" \in dom
             => /\ Len(navLinks') = Len(pages)
                /\ \A i \in 1..Len(pages) :
                      /\ navLinks'[i].href = pages[i].page_link
                      /\ navLinks'[i].text = pages[i].page_name
                      /\ IF pages[i].page_link = CurrentFile(pathname)
                         THEN MarkedActive(navLinks'[i])
                         ELSE NotMarked(navLinks'[i])
       /\ NavbarFails => navLinks' = navLinks /\ themeSwitcher' = themeSwitcher]_vars

\* The page served under '/rr/' shows the three links of the list, the
\* link to index.html marked active.
C25_Witness ==
    /\ navPc = "done"
    /\ pathname = <<"/", "r", "r", "/">>
    /\ Len(navLinks) = 3
    /\ navLinks[1].text = "Home"
    /\ MarkedActive(navLinks[1])
    /\ NotMarked(navLinks[2])
    /\ NotMarked(navLinks[3])

-----------------------------------------------------------------------------
(* The display and the sort state of the all-competitions page (Spec) *)

\* The body and the icons of a table are those its sort state `st` gives
\* for its array: rows as sortCompetitions orders them, icons as
\* updateSortIcons sets them.
FollowsSortState(body, icons, rows, headers, st) ==
    /\ ShownRecords(body) = ShownRecords(rows)
    /\ icons = updateSortIcons(headers, st.column, st.ascending)

\* C27 as stated: once loadAllCompetitions has rendered the tables, the
\* rows and the icons of each table are those of its sort state, whatever
\* clicks were made before or after the data arrived.
C27_DisplayFollowsSortState ==
    loadPc = "done" =>
        /\ FollowsSortState(tableBody.table1, sortIcons.table1,
                            populateTable1(SortedBy(competitionsData,
                                sortState.table1.column, sortState.table1.ascending)),
                            Headers1, sortState.table1)
        /\ FollowsSortState(tableBody.table2, sortIcons.table2,
                            populateTable2(SortedBy(moldovaCompetitionsData,
                                sortState.table2.column, sortState.table2.ascending)),
                            Headers2, sortState.table2)
        /\ FollowsSortState(tableBody.table3, sortIcons.table3,
                            populateTable3(SortedBy(otherCompetitionsData,
                                sortState.table3.column, sortState.table3.ascending)),
                            Headers3, sortState.table3)

=============================================================================
